---------------------------- MODULE Spec2Model ----------------------------
(***************************************************************************)
(* Pie-Brain: the task Dispatcher (core/engine.py), the Router             *)
(* (core/router.py), the task table (core/db.py), the Command Sanitizer    *)
(* (guardian/sanitizer.py), the Interface Validator                        *)
(* (guardian/interface_check.py), the Smoke Tester                         *)
(* (guardian/smoke_test.py) and the Hot Module Watcher                     *)
(* (guardian/watcher.py), as one state machine.                            *)
(*                                                                         *)
(* Strings of the program (commands, prompts, error texts) are TLA+        *)
(* strings; Len, SubSeq and \o work on them character by character.        *)
(* Python's None is the string None_.  A dict is a function from its keys. *)
(* An asyncio coroutine runs atomically between two awaits, so every       *)
(* action below is the code between two suspension points.                 *)
(***************************************************************************)
EXTENDS Integers, Sequences, FiniteSets, TLC

VARIABLES
    tasks,          \* core/db.py: the rows of table tasks; a row's id is its index
    running,        \* Engine._running
    pollpc,         \* where Engine.run is: idle, loop, fetched, returned
    fetched,        \* Engine.run: the list get_pending_tasks returned
    handlers,       \* the asyncio tasks Engine.run created, one _handle call each
    llm_sem,        \* value of the LLM asyncio.Semaphore
    brain_sem,      \* value of the cloud-brain asyncio.Semaphore
    max_retries,    \* Router.max_retries
    spawned,        \* commands a shell subprocess was created for
    TOOL_REGISTRY,  \* tools/__init__.py: name -> class
    brain_registry, \* BrainRegistry._registry: name -> class
    files,          \* the watched plugin directories: path -> file or NoFile
    quarantine,     \* the quarantine directory: file name -> content
    clock,          \* source of modification times
    known,          \* watch_for_new_modules: known, path -> mtime
    wpc,            \* where watch_for_new_modules is: sleep, next, trial
    newq,           \* the rest of the list _new_files returned for this poll
    trial,          \* the smoke test suspended in run_local, if any
    wlog,           \* the Watcher's calls: smoke test, _hot_register, _quarantine
    subclasses,     \* BaseTool.__subclasses__() and BaseBrain.__subclasses__()
    effects,        \* what the calls made inside smoke-test trials reached
    all_issues,     \* validate_registries: the list its last call returned
    checked         \* check_spawn_cmd: its last call, the command and the result

engineVars == <<tasks, running, pollpc, fetched, handlers, llm_sem, brain_sem,
                max_retries, spawned>>
registryVars == <<TOOL_REGISTRY, brain_registry>>
watcherVars == <<files, quarantine, clock, known, wpc, newq, trial, wlog, subclasses,
                 effects, all_issues>>
sanitizerVars == <<checked>>
vars == <<engineVars, registryVars, watcherVars, sanitizerVars>>

\* ------------------------------------------------------------------------
\* Bounds of the model
\* ------------------------------------------------------------------------
NumTasks == 2
MaxHandlers == 2
MaxBudget == 3
MaxClock == 3
MaxCmdLen == 4
MaxPieces == 4

\* ------------------------------------------------------------------------
\* Program constants
\* ------------------------------------------------------------------------
llm_semaphore_limit == 1
cloud_brain_semaphore_limit == 1

None_ == "None"
default_cloud_brain == "claude_code"

\* ------------------------------------------------------------------------
\* Generic helpers on strings and sequences
\* ------------------------------------------------------------------------
\* Python's `sub in s`
Contains(s, sub) ==
    \E i \in 1..(Len(s) - Len(sub) + 1) : SubSeq(s, i, i + Len(sub) - 1) = sub

\* Python's s.replace(old, new) for a one-character old: every character that
\* is old becomes new.  R[<<lo, hi>>] is the replacement of s[lo..hi], computed
\* by halves, to keep the recursion shallow.
Replace(s, old, new) ==
    LET n == Len(s)
        R[r \in (1..(n + 1)) \X (0..n)] ==
            IF r[1] > r[2] THEN ""
            ELSE IF r[1] = r[2]
            THEN (IF SubSeq(s, r[1], r[1]) = old THEN new ELSE SubSeq(s, r[1], r[1]))
            ELSE LET mid == (r[1] + r[2]) \div 2
                 IN R[<<r[1], mid>>] \o R[<<mid + 1, r[2]>>]
    IN R[<<1, n>>]

RECURSIVE Pow2(_)
Pow2(n) == IF n = 0 THEN 1 ELSE 2 * Pow2(n - 1)

Range(f) == {f[i] : i \in DOMAIN f}

\* the empty dict {}
EmptyDict == [k \in {} |-> ""]

\* ------------------------------------------------------------------------
\* guardian/sanitizer.py
\* ------------------------------------------------------------------------
\* The backquote character: SANY's lexer admits none inside a string, so the
\* model writes it as the form feed, which no other string of the model holds.
BACKQUOTE == "\f"

\* a faulty pattern, which knows the dollar-paren form only:
\* C20_SubstitutionAlwaysRejected must not hold of it
CmdSubstitutionDollarOnly(cmd) == Contains(cmd, "$(")

\* _CMD_SUBSTITUTION_RE: dollar-paren, or a backquote
CMD_SUBSTITUTION_RE(cmd) == Contains(cmd, "$(") \/ Contains(cmd, BACKQUOTE)

\* _RECURSIVE_SPAWN_RE = core[./]engine
RECURSIVE_SPAWN_RE(cmd) == Contains(cmd, "core.engine") \/ Contains(cmd, "core/engine")

\* _SYSTEM_PATH_WRITE_RE = /(etc|usr|sys|proc|root)(?:[/ \t]|$)
\* ($ without re.MULTILINE: the end of the string, or just before a final newline)
SYSTEM_PATH_WRITE_RE(cmd) ==
    \E pre \in {"/etc", "/usr", "/sys", "/proc", "/root"} :
        \E i \in 1..(Len(cmd) - Len(pre) + 1) :
            LET e == i + Len(pre) - 1 IN
            /\ SubSeq(cmd, i, e) = pre
            /\ \/ e = Len(cmd)
               \/ e = Len(cmd) - 1 /\ SubSeq(cmd, e + 1, e + 1) = "\n"
               \/ e < Len(cmd) /\ SubSeq(cmd, e + 1, e + 1) \in {"/", " ", "\t"}

\* _SHELL_OPERATOR_RE = \||\;|&&|\|\|
SHELL_OPERATOR_RE(text) ==
    Contains(text, "|") \/ Contains(text, ";") \/ Contains(text, "&&") \/ Contains(text, "||")

\* a faulty iteration, for which a backslash inside double quotes is an
\* ordinary character: C32_QuoteTrackerFollowsPolicy must not hold of it
TokenizeStepNoEscape(cmd, st) ==
    LET ch == SubSeq(cmd, st.i, st.i) IN
    IF st.in_single
    THEN [st EXCEPT !.i = @ + 1, !.in_single = (ch # "'")]
    ELSE IF st.in_double
    THEN [st EXCEPT !.i = @ + 1, !.in_double = (ch # "\"")]
    ELSE IF ch = "'"
    THEN [st EXCEPT !.i = @ + 1, !.in_single = TRUE,
                    !.parts = Append(@, st.buf), !.buf = ""]
    ELSE IF ch = "\""
    THEN [st EXCEPT !.i = @ + 1, !.in_double = TRUE,
                    !.parts = Append(@, st.buf), !.buf = ""]
    ELSE [st EXCEPT !.i = @ + 1, !.buf = @ \o ch]

\* One iteration of the while loop of _tokenize_unquoted; st holds the loop's
\* locals (i is 1-based)
TokenizeStep(cmd, st) ==
    LET ch == SubSeq(cmd, st.i, st.i) IN
    IF st.in_single
    THEN [st EXCEPT !.i = @ + 1, !.in_single = (ch # "'")]
    ELSE IF st.in_double
    THEN IF ch = "\\" /\ st.i + 1 <= Len(cmd)
         THEN [st EXCEPT !.i = @ + 2]
         ELSE [st EXCEPT !.i = @ + 1, !.in_double = (ch # "\"")]
    ELSE IF ch = "'"
    THEN [st EXCEPT !.i = @ + 1, !.in_single = TRUE,
                    !.parts = Append(@, st.buf), !.buf = ""]
    ELSE IF ch = "\""
    THEN [st EXCEPT !.i = @ + 1, !.in_double = TRUE,
                    !.parts = Append(@, st.buf), !.buf = ""]
    ELSE [st EXCEPT !.i = @ + 1, !.buf = @ \o ch]

\* The iterations of the while loop for the indexes lo..hi, in order: the
\* index j has an iteration when the loop reaches it (i = j), and has none when
\* the iteration before stepped over it (i += 2 after a backslash). The range
\* is run by halves, which keeps the evaluation shallow on long commands.
RECURSIVE TokenizeLoop(_, _, _, _)
TokenizeLoop(cmd, st, lo, hi) ==
    IF lo > hi THEN st
    ELSE IF lo = hi THEN (IF st.i = lo THEN TokenizeStep(cmd, st) ELSE st)
    ELSE LET mid == (lo + hi) \div 2
             left == TokenizeLoop(cmd, st, lo, mid)
         IN IF left.i > hi THEN left ELSE TokenizeLoop(cmd, left, mid + 1, hi)

tokenize_unquoted(cmd) ==
    LET st == TokenizeLoop(cmd, [i |-> 1, in_single |-> FALSE, in_double |-> FALSE,
                                 parts |-> <<>>, buf |-> ""], 1, Len(cmd))
    IN Append(st.parts, st.buf)

\* "".join(parts)
RECURSIVE Join(_)
Join(parts) == IF parts = <<>> THEN "" ELSE Head(parts) \o Join(Tail(parts))

V_SUBSTITUTION == "command substitution ($(...) or backtick) is not allowed"
V_SELF_SPAWN == "recursive engine spawn (core.engine / core/engine) is not allowed"
V_SYSTEM_PATH == "write to system path (/etc, /usr, /sys, /proc, /root) is not allowed"
V_SHELL_OPERATOR == "shell operator (|, ;, &&, ||) in unquoted context is not allowed"

\* a faulty check, which returns at the first rule violated:
\* C24_AllRulesCollected must not hold of it
check_spawn_cmd_first(cmd) ==
    IF CMD_SUBSTITUTION_RE(cmd) THEN [ok |-> FALSE, violations |-> <<V_SUBSTITUTION>>]
    ELSE IF RECURSIVE_SPAWN_RE(cmd) THEN [ok |-> FALSE, violations |-> <<V_SELF_SPAWN>>]
    ELSE IF SYSTEM_PATH_WRITE_RE(cmd) THEN [ok |-> FALSE, violations |-> <<V_SYSTEM_PATH>>]
    ELSE IF SHELL_OPERATOR_RE(Join(tokenize_unquoted(cmd)))
    THEN [ok |-> FALSE, violations |-> <<V_SHELL_OPERATOR>>]
    ELSE [ok |-> TRUE, violations |-> <<>>]

check_spawn_cmd(cmd) ==
    LET v1 == IF CMD_SUBSTITUTION_RE(cmd) THEN <<V_SUBSTITUTION>> ELSE <<>>
        v2 == IF RECURSIVE_SPAWN_RE(cmd) THEN <<V_SELF_SPAWN>> ELSE <<>>
        v3 == IF SYSTEM_PATH_WRITE_RE(cmd) THEN <<V_SYSTEM_PATH>> ELSE <<>>
        unquoted_text == Join(tokenize_unquoted(cmd))
        v4 == IF SHELL_OPERATOR_RE(unquoted_text) THEN <<V_SHELL_OPERATOR>> ELSE <<>>
        violations == v1 \o v2 \o v3 \o v4
    IN [ok |-> Len(violations) = 0, violations |-> violations]

\* the characters commands are made of here: the ones the sanitizer's rules
\* tell apart, and a letter
CmdAlphabet == {"$", "(", BACKQUOTE, "'", "\"", ";", "a"}

\* the command strings of at most n characters
RECURSIVE Commands(_)
Commands(n) ==
    IF n = 0 THEN {""}
    ELSE Commands(n - 1) \cup {s \o c : s \in Commands(n - 1), c \in CmdAlphabet}

\* the pieces longer commands are made of here: what the four rules look for
\* (a substitution, the engine's module, a protected path, the operators'
\* characters), the quotes and the backslash the tokenizer tells apart, and
\* what may follow a path
CmdPieces == {"$(", "core.engine", "/etc", "/", " ", "'", "\"", "\\", ";", "|", "&", "a"}

\* the command strings of at most n pieces
RECURSIVE Phrases(_)
Phrases(n) ==
    IF n = 0 THEN {""}
    ELSE Phrases(n - 1) \cup {s \o c : s \in Phrases(n - 1), c \in CmdPieces}

\* a call of check_spawn_cmd(cmd); the model follows one call
CheckSpawnCmd(cmd) ==
    /\ checked = <<>>
    /\ checked' = <<[cmd |-> cmd, result |-> check_spawn_cmd(cmd)]>>
    /\ UNCHANGED <<engineVars, registryVars, watcherVars>>

\* ------------------------------------------------------------------------
\* Capability classes (tools/base.py, brains/base.py and the plugin modules)
\*
\* A class is a record: the module it was loaded as, its base, its declared
\* name, the signature of each operation (defined, async or not, parameter
\* names with the receiver first) and how it behaves when the operations are
\* called ("ok", "raises"; for get_spawn_cmd({}) also "empty").  io is the
\* sequence of calls run_local makes to network clients and to the
\* persistent-write helper before it returns.
\* ------------------------------------------------------------------------
Method(is_async, params) == [defined |-> TRUE, is_async |-> is_async, params |-> params]
NoMethod == [defined |-> FALSE, is_async |-> FALSE, params |-> <<>>]

\* A call run_local makes: the dotted name of what is called, and how the
\* candidate reaches it: "at_call" when it looks the attribute up on the module
\* at the time of the call (httpx.AsyncClient(...), db.atomic_write(...)),
\* "at_load" when its module bound the object to a name of its own when it was
\* executed (from core.db import atomic_write).
Call(target, bound) == [target |-> target, bound |-> bound]

ToolClass(module, tool_name, run_local, get_spawn_cmd, init, cmd, run) ==
    [module |-> module, base |-> "BaseTool", tool_name |-> tool_name, brain_name |-> "",
     run_local |-> run_local, get_spawn_cmd |-> get_spawn_cmd,
     init |-> init, cmd |-> cmd, run |-> run, io |-> <<>>]

BrainClass(module, brain_name, get_spawn_cmd) ==
    [module |-> module, base |-> "BaseBrain", tool_name |-> "", brain_name |-> brain_name,
     run_local |-> NoMethod, get_spawn_cmd |-> get_spawn_cmd,
     init |-> "ok", cmd |-> "ok", run |-> "ok", io |-> <<>>]

\* tools/arxiv.py, tools/git_sync.py, tools/memory.py
BundledTool(name) ==
    ToolClass("tools." \o name, name,
              Method(TRUE, <<"self", "params">>), Method(FALSE, <<"self", "params">>),
              "ok", "ok", "ok")

\* brains/claude_code.py
ClaudeCodeBrain ==
    BrainClass("brains.claude_code", "claude_code",
               Method(FALSE, <<"self", "tool_name", "params">>))

\* tools/__init__.py: TOOL_REGISTRY, built from the bundled modules at import
InitialToolRegistry == [n \in {"arxiv", "git_sync", "memory"} |-> BundledTool(n)]

\* BrainRegistry._load_all
InitialBrainRegistry == [n \in {"claude_code"} |-> ClaudeCodeBrain]

\* A params dict is the sequence of its items, each <<key, value>> with
\* string key and string value; EmptyParams is {}.
EmptyParams == <<>>

\* json.dumps of a string: quoted, with backslash and double quote escaped
JsonString(str) ==
    "\"" \o Replace(Replace(str, "\\", "\\\\"), "\"", "\\\"") \o "\""

\* the items of json.dumps(params, indent=2), one per line
RECURSIVE JsonItems(_)
JsonItems(items) ==
    IF Len(items) = 0 THEN ""
    ELSE "  " \o JsonString(items[1][1]) \o ": " \o JsonString(items[1][2])
         \o (IF Len(items) > 1 THEN ",\n" \o JsonItems(Tail(items)) ELSE "")

\* json.dumps(params, indent=2)
json_dumps(params) ==
    IF params = EmptyParams THEN "{}" ELSE "{\n" \o JsonItems(params) \o "\n}"

\* ClaudeCodeBrain._build_prompt
build_prompt(tool_name, params) ==
    "You are Pie-Brain's cloud assistant.\n"
    \o "Tool requested: " \o tool_name \o "\n"
    \o "Parameters: " \o json_dumps(params) \o "\n"
    \o "Please complete this task and write any Markdown output to ~/brain/inbox/."

\* ClaudeCodeBrain.get_spawn_cmd
get_spawn_cmd(tool_name, params) ==
    LET prompt == build_prompt(tool_name, params)
        safe_prompt == Replace(prompt, "'", "'\\''")
    IN "claude --print '" \o safe_prompt \o "'"

\* ------------------------------------------------------------------------
\* core/db.py
\* ------------------------------------------------------------------------
TaskStatus == {"pending", "routing", "executing", "done"}

\* an optional argument: NoArg is the default None, Arg(x) a value
NoArg == <<>>
Arg(x) == <<x>>

enqueue_task(rows, metadata) ==
    Append(rows, [status |-> "pending", tool_name |-> None_, metadata |-> metadata])

\* the ids of the rows with status pending, in ascending order
get_pending_tasks(rows) ==
    LET F[i \in 0..Len(rows)] ==
            IF i = 0 THEN <<>>
            ELSE IF rows[i].status = "pending" THEN Append(F[i - 1], i) ELSE F[i - 1]
    IN F[Len(rows)]

update_task_status(rows, task_id, status, tool_name, metadata) ==
    IF tool_name # NoArg /\ metadata # NoArg
    THEN [rows EXCEPT ![task_id] = [status |-> status, tool_name |-> tool_name[1],
                                    metadata |-> metadata[1]]]
    ELSE IF tool_name # NoArg
    THEN [rows EXCEPT ![task_id].status = status, ![task_id].tool_name = tool_name[1]]
    ELSE [rows EXCEPT ![task_id].status = status]

\* the arguments update_task_status is called with by a caller other than the
\* Dispatcher: a tool name or none, a metadata mapping or none
ToolNameArgs == {NoArg, Arg("arxiv")}
MetadataValues == {EmptyDict, [error |-> "Ollama failed after 3 attempt(s)"]}
MetadataArgs == {NoArg} \cup {Arg(md) : md \in MetadataValues}

\* a call of update_task_status on a row of the table
UpdateTaskStatus(task_id, status, tool_name, metadata) ==
    /\ task_id \in DOMAIN tasks
    /\ tasks' = update_task_status(tasks, task_id, status, tool_name, metadata)
    /\ UNCHANGED <<running, pollpc, fetched, handlers, llm_sem, brain_sem, max_retries, spawned>>
    /\ UNCHANGED <<registryVars, watcherVars, sanitizerVars>>

\* ------------------------------------------------------------------------
\* core/router.py
\* ------------------------------------------------------------------------
RouterOutput(tool_name, params, handoff) ==
    [tool_name |-> tool_name, params |-> params, handoff |-> handoff]

\* The routing decisions the classifier may answer with: a registered tool run
\* locally, an unregistered one, a handoff, and a handoff whose parameters
\* carry a command substitution.
Decisions ==
    { RouterOutput("arxiv", EmptyParams, FALSE),
      RouterOutput("nosuch", EmptyParams, FALSE),
      RouterOutput("arxiv", EmptyParams, TRUE),
      RouterOutput("arxiv", <<<<"q", "$(id)">>>>, TRUE) }

\* What one awaited classifier call ends in: a response whose text parses to a
\* RouterOutput, a response _parse rejects (ValueError), asyncio.TimeoutError,
\* or another exception of the client.
FailureKinds == {"timeout", "error", "malformed"}

\* the RuntimeError route raises when the loop ends
RouteFailure(n) == "Ollama failed after " \o ToString(n) \o " attempt(s)"

\* a faulty backoff, the same wait after every failed attempt: C7_BackoffSchedule
\* must not hold of it
BackoffConstant(attempt) == 1

\* the backoff of route after failed attempt number attempt
Backoff(attempt) == Pow2(attempt - 1)


\* ------------------------------------------------------------------------
\* core/engine.py
\*
\* A handler is one asyncio task running Engine._handle(task).  Its pc:
\*   start      created; awaiting update_task_status(routing)
\*   route      in Router.route, about to enter `async with llm_semaphore`
\*   calling    holds an LLM slot; awaiting the classifier
\*   backoff    in Router.route, in asyncio.sleep(backoff)
\*   routed     route returned router_output; awaiting update_task_status(executing)
\*   executing  status executing is persisted; about to look up the tool or brain
\*   running    awaiting tool.run_local(params)
\*   spawn_wait in _spawn_brain, about to enter `async with brain_sem`
\*   spawning   holds a brain slot; awaiting create_subprocess_exec
\*   proc_wait  holds a brain slot; awaiting proc.wait()
\*   finishing  awaiting update_task_status(done)
\*   done       _handle returned
\*   crashed    _handle ended with an exception
\* attempt and last_exc are locals of the route call: the loop variable and
\* the exception of the last failed attempt.  calls and waits record what the
\* route call did: the number of classifier calls begun and the backoffs
\* slept, in order.  last_exc, calls and waits are kept until _handle's next
\* step after route returned.
\* ------------------------------------------------------------------------
NewHandler(task_id) ==
    [task |-> task_id, pc |-> "start", attempt |-> 0, last_exc |-> "", calls |-> 0,
     waits |-> <<>>, out |-> <<>>, cmd |-> "", exc |-> ""]

Finished(h) == handlers[h].pc \in {"done", "crashed"}

\* Engine.run up to the first get_pending_tasks
EngineRun ==
    /\ pollpc = "idle"
    /\ running' = TRUE
    /\ pollpc' = "fetching"
    /\ UNCHANGED <<tasks, fetched, handlers, llm_sem, brain_sem, max_retries, spawned>>
    /\ UNCHANGED <<registryVars, watcherVars, sanitizerVars>>

\* Engine.stop
EngineStop ==
    /\ running
    /\ running' = FALSE
    /\ UNCHANGED <<tasks, pollpc, fetched, handlers, llm_sem, brain_sem, max_retries, spawned>>
    /\ UNCHANGED <<registryVars, watcherVars, sanitizerVars>>

\* a faulty poll loop, which awaits the handlers it created before it tests
\* `while self._running` again: C27_PollLoopNeverBlocked must not hold of it
PollWakeAfterHandlers ==
    /\ pollpc = "sleep"
    /\ \A h \in DOMAIN handlers : Finished(h)
    /\ pollpc' = IF running THEN "fetching" ELSE "returned"
    /\ UNCHANGED <<tasks, running, fetched, handlers, llm_sem, brain_sem, max_retries, spawned>>
    /\ UNCHANGED <<registryVars, watcherVars, sanitizerVars>>

\* Engine.run: asyncio.sleep(POLL_INTERVAL) ends and `while self._running` is tested
PollWake ==
    /\ pollpc = "sleep"
    /\ pollpc' = IF running THEN "fetching" ELSE "returned"
    /\ UNCHANGED <<tasks, running, fetched, handlers, llm_sem, brain_sem, max_retries, spawned>>
    /\ UNCHANGED <<registryVars, watcherVars, sanitizerVars>>

\* Engine.run: the read of get_pending_tasks
PollFetch ==
    /\ pollpc = "fetching"
    /\ Len(handlers) + Len(get_pending_tasks(tasks)) <= MaxHandlers
    /\ fetched' = get_pending_tasks(tasks)
    /\ pollpc' = "fetched"
    /\ UNCHANGED <<tasks, running, handlers, llm_sem, brain_sem, max_retries, spawned>>
    /\ UNCHANGED <<registryVars, watcherVars, sanitizerVars>>

\* Engine.run: asyncio.create_task(self._handle(task)) for each task fetched
PollDispatch ==
    /\ pollpc = "fetched"
    /\ handlers' = handlers \o [i \in 1..Len(fetched) |-> NewHandler(fetched[i])]
    /\ fetched' = <<>>
    /\ pollpc' = "sleep"
    /\ UNCHANGED <<tasks, running, llm_sem, brain_sem, max_retries, spawned>>
    /\ UNCHANGED <<registryVars, watcherVars, sanitizerVars>>

\* a provider calls enqueue_task
Enqueue ==
    /\ Len(tasks) < NumTasks
    /\ tasks' = enqueue_task(tasks, EmptyDict)
    /\ UNCHANGED <<running, pollpc, fetched, handlers, llm_sem, brain_sem, max_retries, spawned>>
    /\ UNCHANGED <<registryVars, watcherVars, sanitizerVars>>

\* a faulty except block, in which the failure of one task also stops the poll
\* loop: C5_FailureIsContained must not hold of it
ExceptBlockStopsEngine(hs, h, exc) ==
    /\ handlers' = [hs EXCEPT ![h].pc = "crashed", ![h].exc = exc]
    /\ running' = FALSE
    /\ UNCHANGED <<tasks, pollpc, fetched>>

\* _handle's `except Exception as exc` block.  TaskStatus has no member
\* `failed`, so evaluating TaskStatus.failed raises AttributeError before
\* update_task_status is called: the asyncio task ends with that exception and
\* the row is not written.
\* hs is the handlers with the raising step's own updates made.
ExceptBlock(hs, h, exc) ==
    /\ handlers' = [hs EXCEPT ![h].pc = "crashed", ![h].exc = exc]
    /\ UNCHANGED <<tasks, running, pollpc, fetched>>

\* _handle: update_task_status(db, task.id, TaskStatus.routing), then route up
\* to the semaphore
MarkRouting(h) ==
    /\ handlers[h].pc = "start"
    /\ tasks' = update_task_status(tasks, handlers[h].task, "routing", NoArg, NoArg)
    /\ handlers' = [handlers EXCEPT ![h].pc = "route", ![h].attempt = 1]
    /\ UNCHANGED <<running, pollpc, fetched, llm_sem, brain_sem, max_retries, spawned>>
    /\ UNCHANGED <<registryVars, watcherVars, sanitizerVars>>

\* a faulty entry to the classifier call, which does not wait for a free slot:
\* C8_LimitersBound must not hold of it
RouteAcquireUnguarded(h) ==
    /\ handlers[h].pc = "route"
    /\ llm_sem' = llm_sem - 1
    /\ handlers' = [handlers EXCEPT ![h].pc = "calling", ![h].calls = @ + 1]
    /\ UNCHANGED <<tasks, running, pollpc, fetched, brain_sem, max_retries, spawned>>
    /\ UNCHANGED <<registryVars, watcherVars, sanitizerVars>>

\* Router.route: `async with self.llm_semaphore` is entered and the call begins
RouteAcquire(h) ==
    /\ handlers[h].pc = "route"
    /\ llm_sem > 0
    /\ llm_sem' = llm_sem - 1
    /\ handlers' = [handlers EXCEPT ![h].pc = "calling", ![h].calls = @ + 1]
    /\ UNCHANGED <<tasks, running, pollpc, fetched, brain_sem, max_retries, spawned>>
    /\ UNCHANGED <<registryVars, watcherVars, sanitizerVars>>

\* Router.route: the classifier answers with text that _parse accepts; the
\* semaphore is released and route returns the RouterOutput
RouteReturn(h, d) ==
    /\ handlers[h].pc = "calling"
    /\ llm_sem' = llm_sem + 1
    /\ handlers' = [handlers EXCEPT ![h].pc = "routed", ![h].attempt = 0,
                                    ![h].out = <<d>>]
    /\ UNCHANGED <<tasks, running, pollpc, fetched, brain_sem, max_retries, spawned>>
    /\ UNCHANGED <<registryVars, watcherVars, sanitizerVars>>

\* a faulty retry, which goes on after the last attempt of the budget:
\* C6_RetryBudget must not hold of it
RouteRetryUnbounded(h, kind) ==
    /\ handlers[h].pc = "calling"
    /\ handlers[h].attempt <= max_retries
    /\ llm_sem' = llm_sem + 1
    /\ handlers' = [handlers EXCEPT ![h].pc = "backoff",
                                    ![h].last_exc = kind,
                                    ![h].waits = Append(@, Backoff(handlers[h].attempt))]
    /\ UNCHANGED <<tasks, running, pollpc, fetched, brain_sem, max_retries, spawned>>
    /\ UNCHANGED <<registryVars, watcherVars, sanitizerVars>>

\* a faulty retry, which sleeps the backoff inside the `async with` block and
\* so keeps the slot: C40_SlotsNeverLeak must not hold of it
RouteRetryKeepsSlot(h, kind) ==
    /\ handlers[h].pc = "calling"
    /\ handlers[h].attempt < max_retries
    /\ handlers' = [handlers EXCEPT ![h].pc = "backoff",
                                    ![h].last_exc = kind,
                                    ![h].waits = Append(@, Backoff(handlers[h].attempt))]
    /\ UNCHANGED <<tasks, running, pollpc, fetched, llm_sem, brain_sem, max_retries, spawned>>
    /\ UNCHANGED <<registryVars, watcherVars, sanitizerVars>>

\* Router.route: the call times out, raises, or answers with text _parse
\* rejects; the semaphore is released, and the attempt is not the last: route
\* sleeps the backoff
RouteRetry(h, kind) ==
    /\ handlers[h].pc = "calling"
    /\ handlers[h].attempt < max_retries
    /\ llm_sem' = llm_sem + 1
    /\ handlers' = [handlers EXCEPT ![h].pc = "backoff",
                                    ![h].last_exc = kind,
                                    ![h].waits = Append(@, Backoff(handlers[h].attempt))]
    /\ UNCHANGED <<tasks, running, pollpc, fetched, brain_sem, max_retries, spawned>>
    /\ UNCHANGED <<registryVars, watcherVars, sanitizerVars>>

\* Router.route: the last attempt fails; route raises RuntimeError, which
\* _handle's except block receives
RouteExhausted(h, kind) ==
    /\ handlers[h].pc = "calling"
    /\ ~(handlers[h].attempt < max_retries)
    /\ llm_sem' = llm_sem + 1
    /\ ExceptBlock([handlers EXCEPT ![h].attempt = 0, ![h].last_exc = ""], h,
                   RouteFailure(max_retries))
    /\ UNCHANGED <<brain_sem, max_retries, spawned>>
    /\ UNCHANGED <<registryVars, watcherVars, sanitizerVars>>

\* Router.route: asyncio.sleep(backoff) ends; the next attempt begins
BackoffDone(h) ==
    /\ handlers[h].pc = "backoff"
    /\ handlers' = [handlers EXCEPT ![h].pc = "route", ![h].attempt = @ + 1]
    /\ UNCHANGED <<tasks, running, pollpc, fetched, llm_sem, brain_sem, max_retries, spawned>>
    /\ UNCHANGED <<registryVars, watcherVars, sanitizerVars>>

\* _handle: update_task_status(db, task.id, TaskStatus.executing, tool_name=...,
\* metadata={"params": ..., "handoff": ...})
MarkExecuting(h) ==
    /\ handlers[h].pc = "routed"
    /\ LET d == handlers[h].out[1] IN
       tasks' = update_task_status(tasks, handlers[h].task, "executing", Arg(d.tool_name),
                                   Arg([params |-> d.params, handoff |-> d.handoff]))
    /\ handlers' = [handlers EXCEPT ![h].pc = "executing", ![h].last_exc = "",
                                    ![h].calls = 0, ![h].waits = <<>>]
    /\ UNCHANGED <<running, pollpc, fetched, llm_sem, brain_sem, max_retries, spawned>>
    /\ UNCHANGED <<registryVars, watcherVars, sanitizerVars>>

\* _handle, local decision: TOOL_REGISTRY.get finds the class, tool_cls()
\* builds the tool and run_local(params) is awaited
LocalStart(h) ==
    /\ handlers[h].pc = "executing"
    /\ ~handlers[h].out[1].handoff
    /\ handlers[h].out[1].tool_name \in DOMAIN TOOL_REGISTRY
    /\ TOOL_REGISTRY[handlers[h].out[1].tool_name].init = "ok"
    /\ handlers' = [handlers EXCEPT ![h].pc = "running"]
    /\ UNCHANGED <<tasks, running, pollpc, fetched, llm_sem, brain_sem, max_retries, spawned>>
    /\ UNCHANGED <<registryVars, watcherVars, sanitizerVars>>

\* _handle, local decision: TOOL_REGISTRY.get returns None (ValueError), or
\* tool_cls() raises
LocalLookupFails(h) ==
    /\ handlers[h].pc = "executing"
    /\ ~handlers[h].out[1].handoff
    /\ LET name == handlers[h].out[1].tool_name IN
       /\ ~(name \in DOMAIN TOOL_REGISTRY /\ TOOL_REGISTRY[name].init = "ok")
       /\ ExceptBlock(handlers, h, IF name \notin DOMAIN TOOL_REGISTRY
                                   THEN "Unknown tool: '" \o name \o "'"
                                   ELSE "tool_cls() raised")
    /\ UNCHANGED <<llm_sem, brain_sem, max_retries, spawned>>
    /\ UNCHANGED <<registryVars, watcherVars, sanitizerVars>>

\* _handle: tool.run_local(params) returns
RunLocalReturns(h) ==
    /\ handlers[h].pc = "running"
    /\ handlers' = [handlers EXCEPT ![h].pc = "finishing"]
    /\ UNCHANGED <<tasks, running, pollpc, fetched, llm_sem, brain_sem, max_retries, spawned>>
    /\ UNCHANGED <<registryVars, watcherVars, sanitizerVars>>

\* _handle: tool.run_local(params) raises
RunLocalRaises(h) ==
    /\ handlers[h].pc = "running"
    /\ ExceptBlock(handlers, h, "run_local raised")
    /\ UNCHANGED <<llm_sem, brain_sem, max_retries, spawned>>
    /\ UNCHANGED <<registryVars, watcherVars, sanitizerVars>>

\* _spawn_brain: brain_registry.get(default_cloud_brain) and
\* brain.get_spawn_cmd(tool_name, params).  The command is built and kept;
\* nothing examines it before the subprocess is created.
SpawnPrepare(h) ==
    /\ handlers[h].pc = "executing"
    /\ handlers[h].out[1].handoff
    /\ default_cloud_brain \in DOMAIN brain_registry
    /\ handlers' = [handlers EXCEPT
                      ![h].pc = "spawn_wait",
                      ![h].cmd = get_spawn_cmd(handlers[h].out[1].tool_name,
                                               handlers[h].out[1].params)]
    /\ UNCHANGED <<tasks, running, pollpc, fetched, llm_sem, brain_sem, max_retries, spawned>>
    /\ UNCHANGED <<registryVars, watcherVars, sanitizerVars>>

\* _spawn_brain: brain_registry.get(default_cloud_brain) finds no class under
\* the configured name and raises KeyError; _handle's except block receives it.
\* (Not a step of the Dispatcher started from Init, whose brain registry always
\* holds the configured brain.)
SpawnLookupFails(h) ==
    /\ handlers[h].pc = "executing"
    /\ handlers[h].out[1].handoff
    /\ default_cloud_brain \notin DOMAIN brain_registry
    /\ ExceptBlock(handlers, h, "No brain registered under '" \o default_cloud_brain \o "'")
    /\ UNCHANGED <<llm_sem, brain_sem, max_retries, spawned>>
    /\ UNCHANGED <<registryVars, watcherVars, sanitizerVars>>

\* _spawn_brain: `async with self.brain_sem` is entered and
\* create_subprocess_exec("bash", "-c", "nohup <cmd> &") is awaited
SpawnAcquire(h) ==
    /\ handlers[h].pc = "spawn_wait"
    /\ brain_sem > 0
    /\ brain_sem' = brain_sem - 1
    /\ handlers' = [handlers EXCEPT ![h].pc = "spawning"]
    /\ UNCHANGED <<tasks, running, pollpc, fetched, llm_sem, max_retries, spawned>>
    /\ UNCHANGED <<registryVars, watcherVars, sanitizerVars>>

\* _spawn_brain: the subprocess is created; proc.wait() is awaited
SpawnCreated(h) ==
    /\ handlers[h].pc = "spawning"
    /\ spawned' = spawned \cup {handlers[h].cmd}
    /\ handlers' = [handlers EXCEPT ![h].pc = "proc_wait"]
    /\ UNCHANGED <<tasks, running, pollpc, fetched, llm_sem, brain_sem, max_retries>>
    /\ UNCHANGED <<registryVars, watcherVars, sanitizerVars>>

\* _spawn_brain: create_subprocess_exec raises OSError; the slot is released
SpawnFails(h) ==
    /\ handlers[h].pc = "spawning"
    /\ brain_sem' = brain_sem + 1
    /\ ExceptBlock(handlers, h, "create_subprocess_exec raised")
    /\ UNCHANGED <<llm_sem, max_retries, spawned>>
    /\ UNCHANGED <<registryVars, watcherVars, sanitizerVars>>

\* _spawn_brain: proc.wait() returns; the slot is released and _spawn_brain returns
ProcWaitDone(h) ==
    /\ handlers[h].pc = "proc_wait"
    /\ brain_sem' = brain_sem + 1
    /\ handlers' = [handlers EXCEPT ![h].pc = "finishing"]
    /\ UNCHANGED <<tasks, running, pollpc, fetched, llm_sem, max_retries, spawned>>
    /\ UNCHANGED <<registryVars, watcherVars, sanitizerVars>>

\* a faulty handler, which writes done as soon as the task is executing:
\* C30_DoneOnlyAfterWork must not hold of it
MarkDoneAtOnce(h) ==
    /\ handlers[h].pc \in {"executing", "finishing"}
    /\ tasks' = update_task_status(tasks, handlers[h].task, "done", NoArg, NoArg)
    /\ handlers' = [handlers EXCEPT ![h] = [NewHandler(handlers[h].task) EXCEPT !.pc = "done"]]
    /\ UNCHANGED <<running, pollpc, fetched, llm_sem, brain_sem, max_retries, spawned>>
    /\ UNCHANGED <<registryVars, watcherVars, sanitizerVars>>

\* _handle: update_task_status(db, task.id, TaskStatus.done); _handle returns
MarkDone(h) ==
    /\ handlers[h].pc = "finishing"
    /\ tasks' = update_task_status(tasks, handlers[h].task, "done", NoArg, NoArg)
    /\ handlers' = [handlers EXCEPT ![h] = [NewHandler(handlers[h].task) EXCEPT !.pc = "done"]]
    /\ UNCHANGED <<running, pollpc, fetched, llm_sem, brain_sem, max_retries, spawned>>
    /\ UNCHANGED <<registryVars, watcherVars, sanitizerVars>>

\* main(): asyncio.run(engine.run()) ends, because Engine.run returned after a
\* stop or because KeyboardInterrupt was raised in it.  asyncio.run cancels
\* every task of the loop that is not done before it closes the loop: each
\* handler that has not finished gets CancelledError at the await it is
\* suspended in (pc cancelled).  CancelledError is no Exception, so neither
\* route's nor _handle's except block runs; a slot held in an `async with` is
\* released on the way out.
AsyncioRunEnds ==
    /\ pollpc \in {"sleep", "fetching", "fetched", "returned"}
    /\ pollpc' = "closed"
    /\ running' = FALSE
    /\ fetched' = <<>>
    /\ handlers' = [h \in DOMAIN handlers |->
                        IF Finished(h) THEN handlers[h]
                        ELSE [handlers[h] EXCEPT !.pc = "cancelled"]]
    /\ llm_sem' = llm_sem + Cardinality({h \in DOMAIN handlers : handlers[h].pc = "calling"})
    /\ brain_sem' = brain_sem + Cardinality({h \in DOMAIN handlers :
                                                handlers[h].pc \in {"spawning", "proc_wait"}})
    /\ UNCHANGED <<tasks, max_retries, spawned>>
    /\ UNCHANGED <<registryVars, watcherVars, sanitizerVars>>

\* ------------------------------------------------------------------------
\* tools/runner.py: python -m tools.runner <tool_name> spawn '<params_json>'
\* (local mode runs the tool in that process and touches nothing modelled).
\* The runner is a process of its own: its TOOL_REGISTRY and its
\* BrainRegistry() are the ones its imports build.
\* ------------------------------------------------------------------------
RunnerSpawn(tool_name, params) ==
    /\ tool_name \in DOMAIN InitialToolRegistry
    /\ default_cloud_brain \in DOMAIN InitialBrainRegistry
    /\ spawned' = spawned \cup {get_spawn_cmd(tool_name, params)}
    /\ UNCHANGED <<tasks, running, pollpc, fetched, handlers, llm_sem, brain_sem, max_retries>>
    /\ UNCHANGED <<registryVars, watcherVars, sanitizerVars>>

\* ------------------------------------------------------------------------
\* Plugin files
\*
\* A path is a watched directory and a stem (<dir>/<stem>.py).  A file's
\* content is one of the modules below: whether executing it raises, and the
\* classes it defines.
\* ------------------------------------------------------------------------
Path(dir, stem) == [dir |-> dir, stem |-> stem]

\* two of the files the repository ships; they are on disk when the Watcher
\* starts
BundledPaths == {Path("tools", "arxiv"), Path("brains", "claude_code")}

\* the paths at which a plugin file may appear
PluginPaths == {Path("tools", "alpha"), Path("tools", "beta"), Path("brains", "gamma")}

Paths == BundledPaths \cup PluginPaths

\* The classes a plugin file may define, as loaded under the module name
\* module.  GoodTool, WrongParamTool and GoodBrain are the classes of those
\* names in tests/test_guardian_interface.py; RunRaisesTool is a tool whose
\* run_local raises.
GoodTool(module) ==
    ToolClass(module, "good_tool",
              Method(TRUE, <<"self", "params">>), Method(FALSE, <<"self", "params">>),
              "ok", "ok", "ok")
RunRaisesTool(module) ==
    ToolClass(module, "flaky",
              Method(TRUE, <<"self", "params">>), Method(FALSE, <<"self", "params">>),
              "ok", "ok", "raises")
\* run_local(self, wrong_name) and get_spawn_cmd(self, wrong_name): callable
\* with one argument, which is not named params
WrongParamTool(module) ==
    ToolClass(module, "wrong_param",
              Method(TRUE, <<"self", "wrong_name">>), Method(FALSE, <<"self", "wrong_name">>),
              "ok", "ok", "ok")
GoodBrain(module) ==
    BrainClass(module, "good_brain", Method(FALSE, <<"self", "tool_name", "params">>))
\* a tool whose run_local calls httpx.AsyncClient() and db.atomic_write(...),
\* looking both up on their modules when it calls them
MockedIoTool(module) ==
    [GoodTool(module) EXCEPT !.tool_name = "mocked_io",
                             !.io = <<Call("httpx.AsyncClient", "at_call"),
                                      Call("core.db.atomic_write", "at_call")>>]
\* a tool written as tools/arxiv.py is: `import arxiv` and
\* `from core.db import atomic_write` at the top of the module, and a run_local
\* that calls arxiv.Client() and atomic_write(...)
ImportedIoTool(module) ==
    [GoodTool(module) EXCEPT !.tool_name = "imported_io",
                             !.io = <<Call("arxiv.Client", "at_call"),
                                      Call("core.db.atomic_write", "at_load")>>]

\* tests/test_guardian_interface.py: BadRunLocalTool, whose run_local is not
\* async, and BadParamBrain
BadRunLocalTool(module) ==
    ToolClass(module, "bad_run_local",
              Method(FALSE, <<"self", "params">>), Method(FALSE, <<"self", "params">>),
              "ok", "ok", "ok")
BadParamBrain(module) ==
    BrainClass(module, "bad_brain", Method(FALSE, <<"self", "wrong", "also_wrong">>))
\* a tool whose operations take two parameters besides the receiver:
\* run_local(self, params, extra) and get_spawn_cmd(self, params, extra)
ExtraParamTool(module) ==
    ToolClass(module, "extra_param",
              Method(TRUE, <<"self", "params", "extra">>),
              Method(FALSE, <<"self", "params", "extra">>),
              "ok", "ok", "ok")
\* a brain whose get_spawn_cmd takes three parameters besides the receiver:
\* get_spawn_cmd(self, tool_name, params, extra)
ExtraParamBrain(module) ==
    BrainClass(module, "extra_brain", Method(FALSE, <<"self", "tool_name", "params", "extra">>))
\* a tool whose declared name is a blank string
BlankNameTool(module) == [GoodTool(module) EXCEPT !.tool_name = " "]
\* a tool like GoodTool whose source text opens /etc/passwd
SysPathTool(module) == [GoodTool(module) EXCEPT !.tool_name = "sys_path"]

\* tools the smoke test stops at one of its steps: __init__ raises;
\* get_spawn_cmd({}) returns ""; get_spawn_cmd({}) raises
InitRaisesTool(module) == [GoodTool(module) EXCEPT !.tool_name = "init_raises", !.init = "raises"]
EmptyCmdTool(module) == [GoodTool(module) EXCEPT !.tool_name = "empty_cmd", !.cmd = "empty"]
CmdRaisesTool(module) == [GoodTool(module) EXCEPT !.tool_name = "cmd_raises", !.cmd = "raises"]

\* the contents a file dropped while the Watcher runs may have
Contents == {"good_tool", "load_raises", "run_raises", "wrong_param", "good_brain",
             "mocked_io", "imported_io"}

\* the contents a plugin file present at startup may have (a module that
\* raises on load ends the start of the program)
StartupContents ==
    (Contents \ {"load_raises"})
    \cup {"bad_run_local", "bad_brain", "extra_param", "blank_name", "sys_path",
          "extra_brain"}

\* the contents that meet every step of the smoke test: one that passes, and
\* for each step the ones that fail at it
SmokeContents ==
    {"good_tool", "load_raises", "good_brain", "init_raises", "empty_cmd", "cmd_raises",
     "extra_param", "bad_run_local", "run_raises", "mocked_io"}

\* does executing the module raise?
LoadRaises(content) == content = "load_raises"

\* the classes executing the module defines
ClassesOf(content, module) ==
    CASE content = "good_tool" -> {GoodTool(module)}
      [] content = "run_raises" -> {RunRaisesTool(module)}
      [] content = "wrong_param" -> {WrongParamTool(module)}
      [] content = "good_brain" -> {GoodBrain(module)}
      [] content = "mocked_io" -> {MockedIoTool(module)}
      [] content = "imported_io" -> {ImportedIoTool(module)}
      [] content = "bad_run_local" -> {BadRunLocalTool(module)}
      [] content = "bad_brain" -> {BadParamBrain(module)}
      [] content = "extra_param" -> {ExtraParamTool(module)}
      [] content = "blank_name" -> {BlankNameTool(module)}
      [] content = "sys_path" -> {SysPathTool(module)}
      [] content = "extra_brain" -> {ExtraParamBrain(module)}
      [] content = "init_raises" -> {InitRaisesTool(module)}
      [] content = "empty_cmd" -> {EmptyCmdTool(module)}
      [] content = "cmd_raises" -> {CmdRaisesTool(module)}
      [] OTHER -> {}

\* what of the file's text the source scan can meet: the paths it names
SourceOf(content) ==
    IF content = "sys_path" THEN "open(\"/etc/passwd\")"
    ELSE IF content = "imported_io" THEN "Path(\"~/brain/inbox\")"
    ELSE "pass"

NoFile == [content |-> "", mtime |-> 0]
File(content, mtime) == [content |-> content, mtime |-> mtime]
Exists(fs, path) == fs[path] # NoFile


\* ------------------------------------------------------------------------
\* guardian/interface_check.py
\* ------------------------------------------------------------------------
ValidationIssue(module_name, issue_text, severity) ==
    [module_name |-> module_name, issue_text |-> issue_text, severity |-> severity]

\* not name.strip()
IsBlank(name) == \A i \in 1..Len(name) : SubSeq(name, i, i) \in {" ", "\t", "\n"}

\* len(params) < 2 or params[1] != "params"   (Python indexes from 0)
NotSelfParams(params) == Len(params) < 2 \/ params[2] # "params"

check_tool(cls) ==
    (IF IsBlank(cls.tool_name)
     THEN <<ValidationIssue(cls.module, "tool_name is missing or empty", "error")>>
     ELSE <<>>)
    \o (IF ~cls.run_local.defined
        THEN <<ValidationIssue(cls.module, "missing run_local method", "error")>>
        ELSE (IF ~cls.run_local.is_async
              THEN <<ValidationIssue(cls.module, "run_local must be async", "error")>>
              ELSE <<>>)
             \o (IF NotSelfParams(cls.run_local.params)
                 THEN <<ValidationIssue(cls.module,
                                        "run_local must accept (self, params: dict)", "error")>>
                 ELSE <<>>))
    \o (IF ~cls.get_spawn_cmd.defined
        THEN <<ValidationIssue(cls.module, "missing get_spawn_cmd method", "error")>>
        ELSE (IF cls.get_spawn_cmd.is_async
              THEN <<ValidationIssue(cls.module, "get_spawn_cmd must not be async", "error")>>
              ELSE <<>>)
             \o (IF NotSelfParams(cls.get_spawn_cmd.params)
                 THEN <<ValidationIssue(cls.module,
                                        "get_spawn_cmd must accept (self, params: dict)",
                                        "error")>>
                 ELSE <<>>))

check_brain(cls) ==
    (IF IsBlank(cls.brain_name)
     THEN <<ValidationIssue(cls.module, "brain_name is missing or empty", "error")>>
     ELSE <<>>)
    \o (IF ~cls.get_spawn_cmd.defined
        THEN <<ValidationIssue(cls.module, "missing get_spawn_cmd method", "error")>>
        ELSE (IF cls.get_spawn_cmd.is_async
              THEN <<ValidationIssue(cls.module, "get_spawn_cmd must not be async", "error")>>
              ELSE <<>>)
             \o (IF \/ Len(cls.get_spawn_cmd.params) < 3
                    \/ cls.get_spawn_cmd.params[2] # "tool_name"
                    \/ cls.get_spawn_cmd.params[3] # "params"
                 THEN <<ValidationIssue(cls.module,
                          "get_spawn_cmd must accept (self, tool_name: str, params: dict)",
                          "error")>>
                 ELSE <<>>))

\* a faulty test, which takes a warning for an error:
\* C17_ValidateRemovesExactlyErrors must not hold of it
HasAnyIssue(issues) == Len(issues) > 0

\* any(i.severity == "error" for i in issues)
HasError(issues) == \E i \in 1..Len(issues) : issues[i].severity = "error"

\* a provider class: the module it is defined in and the signature of run
ProviderClass(module, run) == [module |-> module, run |-> run]

\* tests/test_guardian_interface.py: the four provider classes
GoodProvider == ProviderClass("tests.test_guardian_interface", Method(TRUE, <<"self">>))
MissingRunProvider == ProviderClass("tests.test_guardian_interface", NoMethod)
SyncRunProvider == ProviderClass("tests.test_guardian_interface", Method(FALSE, <<"self">>))
ExtraParamProvider ==
    ProviderClass("tests.test_guardian_interface", Method(TRUE, <<"self", "extra">>))

check_provider(cls) ==
    IF ~cls.run.defined
    THEN <<ValidationIssue(cls.module, "missing run() method", "error")>>
    ELSE (IF ~cls.run.is_async
          THEN <<ValidationIssue(cls.module, "run() must be async", "error")>>
          ELSE <<>>)
         \o (IF Len(cls.run.params) # 1
             THEN <<ValidationIssue(cls.module, "run() must have signature (self)", "error")>>
             ELSE <<>>)

\* SYSTEM_PATH_RE = ["'/](etc|usr|var|sys|proc|root|boot|lib|bin|sbin)/
SYSTEM_PATH_RE(source) ==
    \E i \in 1..Len(source) :
        /\ SubSeq(source, i, i) \in {"\"", "'", "/"}
        /\ \E name \in {"etc", "usr", "var", "sys", "proc", "root", "boot", "lib", "bin", "sbin"} :
               /\ i + Len(name) + 1 <= Len(source)
               /\ SubSeq(source, i + 1, i + Len(name) + 1) = name \o "/"

\* _scan_source_for_danger: the file the class's module was loaded from is read
\* as it is now; when there is none (OSError, TypeError) nothing is reported
scan_source_for_danger(cls, fs) ==
    LET here == {p \in Paths : p.dir \o "." \o p.stem = cls.module /\ Exists(fs, p)} IN
    IF here = {} THEN <<>>
    ELSE LET mod_file == CHOOSE p \in here : TRUE IN
         IF SYSTEM_PATH_RE(SourceOf(fs[mod_file].content))
         THEN <<ValidationIssue(cls.module,
                    "source references a system path (" \o mod_file.dir \o "/"
                    \o mod_file.stem \o ".py); manual review recommended", "warning")>>
         ELSE <<>>

\* list(registry.items()): the keys, in the order the loop meets them (the
\* model keeps no insertion order; the order is a fixed one)
RECURSIVE Keys(_)
Keys(S) == IF S = {} THEN <<>>
           ELSE LET k == CHOOSE x \in S : TRUE IN <<k>> \o Keys(S \ {k})

\* a faulty removal, which deletes nothing: C18_SecondRunFindsNothingNew must
\* not hold of it
WithoutNothing(registry, bad_keys) == registry

\* for key in bad_keys: del registry[key]
Without(registry, bad_keys) ==
    [n \in DOMAIN registry \ Range(bad_keys) |-> registry[n]]

\* all_issues.extend(issues), for each list of issues in turn
RECURSIVE Extend(_)
Extend(lists) == IF lists = <<>> THEN <<>> ELSE Head(lists) \o Extend(Tail(lists))

\* the keys whose list of issues has an error, in the order of the loop
BadKeys(keys, issues) ==
    LET F[i \in 0..Len(keys)] ==
            IF i = 0 THEN <<>>
            ELSE LET rest == F[i - 1] IN
                 IF HasError(issues[i]) THEN Append(rest, keys[i]) ELSE rest
    IN F[Len(keys)]

\* validate_registries: the registries as it leaves them and the list it returns
validate_registries(tool_registry, brain_reg, provider_classes, fs) ==
    LET tkeys == Keys(DOMAIN tool_registry)
        tissues == [i \in 1..Len(tkeys) |->
                       check_tool(tool_registry[tkeys[i]])
                       \o scan_source_for_danger(tool_registry[tkeys[i]], fs)]
        bkeys == Keys(DOMAIN brain_reg)
        bissues == [i \in 1..Len(bkeys) |->
                       check_brain(brain_reg[bkeys[i]])
                       \o scan_source_for_danger(brain_reg[bkeys[i]], fs)]
        pissues == [i \in 1..Len(provider_classes) |-> check_provider(provider_classes[i])]
    IN [TOOL_REGISTRY |-> Without(tool_registry, BadKeys(tkeys, tissues)),
        brain_registry |-> Without(brain_reg, BadKeys(bkeys, bissues)),
        all_issues |-> Extend(tissues) \o Extend(bissues) \o Extend(pissues)]

\* the provider lists validate_registries is called with
ProviderLists ==
    { <<>>, <<GoodProvider, MissingRunProvider, SyncRunProvider, ExtraParamProvider>> }

\* a call of validate_registries(TOOL_REGISTRY, brain_registry, provider_classes)
ValidateRegistries(provider_classes) ==
    LET r == validate_registries(TOOL_REGISTRY, brain_registry, provider_classes, files) IN
    /\ TOOL_REGISTRY' = r.TOOL_REGISTRY
    /\ brain_registry' = r.brain_registry
    /\ all_issues' = r.all_issues
    /\ UNCHANGED <<files, quarantine, clock, known, wpc, newq, trial, wlog, subclasses, effects>>
    /\ UNCHANGED <<engineVars, sanitizerVars>>

\* ------------------------------------------------------------------------
\* guardian/smoke_test.py
\* ------------------------------------------------------------------------
SmokeResult(ok, reason) == [ok |-> ok, reason |-> reason]

SmokeModule(path) == "_guardian_smoke_" \o path.stem

\* a call with one positional argument besides the receiver binds
TakesOneArgument(method) == Len(method.params) = 2

\* run, steps 1 to 4 and the call of run_local({}), for the class tool_cls the
\* load introduced (NoClass when there is none): the result when the test ends
\* before run_local suspends, and Suspended when run_local({}) is awaited.
Suspended == SmokeResult(TRUE, "awaiting run_local({})")

\* a faulty smoke test, which leaves out step 3 (get_spawn_cmd({})):
\* C31_SmokeRunSteps must not hold of it
SmokeWithoutSpawnCmd(loaded, found, tool_cls) ==
    IF ~loaded THEN SmokeResult(FALSE, "ImportError")
    ELSE IF ~found
    THEN SmokeResult(FALSE, "No BaseTool subclass with tool_name found in module")
    ELSE IF tool_cls.init # "ok" \/ ~tool_cls.run_local.defined
    THEN SmokeResult(FALSE, "Instantiation failed")
    ELSE IF ~TakesOneArgument(tool_cls.run_local) \/ ~tool_cls.run_local.is_async
    THEN SmokeResult(FALSE, "run_local raised")
    ELSE Suspended

SmokeUntilTrial(loaded, found, tool_cls) ==
    IF ~loaded THEN SmokeResult(FALSE, "ImportError")
    ELSE IF ~found
    THEN SmokeResult(FALSE, "No BaseTool subclass with tool_name found in module")
    ELSE IF tool_cls.init # "ok" \/ ~tool_cls.run_local.defined
    THEN SmokeResult(FALSE, "Instantiation failed")
    ELSE IF ~TakesOneArgument(tool_cls.get_spawn_cmd) \/ tool_cls.cmd = "raises"
    THEN SmokeResult(FALSE, "get_spawn_cmd raised")
    ELSE IF tool_cls.get_spawn_cmd.is_async \/ tool_cls.cmd = "empty"
    THEN SmokeResult(FALSE, "get_spawn_cmd({}) returned empty or non-str")
    ELSE IF ~TakesOneArgument(tool_cls.run_local) \/ ~tool_cls.run_local.is_async
    THEN SmokeResult(FALSE, "run_local raised")
    ELSE Suspended

\* run, step 4: the names patch() replaces while run_local({}) runs
mock_targets == {"aiohttp.ClientSession", "httpx.AsyncClient"}

\* run, step 4: what a call made by run_local({}) reaches.  The attributes
\* aiohttp.ClientSession and httpx.AsyncClient are MagicMocks and the attribute
\* core.db.atomic_write is _safe_write, which writes nowhere but under the
\* temporary directory; an object bound before the patches is the original.
TrialCall(call) ==
    [target |-> call.target,
     reached |-> IF call.bound = "at_call" /\ call.target \in mock_targets THEN "mock"
                 ELSE IF call.bound = "at_call" /\ call.target = "core.db.atomic_write"
                 THEN "disposable"
                 ELSE IF call.target = "core.db.atomic_write" THEN "outside"
                 ELSE "network"]

\* run, when the awaited run_local({}) ends
SmokeAfterTrial(tool_cls) ==
    IF tool_cls.run = "ok" THEN SmokeResult(TRUE, "")
    ELSE SmokeResult(FALSE, "run_local raised")


\* ------------------------------------------------------------------------
\* guardian/watcher.py
\* ------------------------------------------------------------------------
\* the order in which the directory scans list the paths
PathOrder ==
    <<Path("tools", "alpha"), Path("tools", "arxiv"), Path("tools", "beta"),
      Path("brains", "claude_code"), Path("brains", "gamma")>>

\* _snapshot
snapshot(fs) == [p \in {q \in Paths : Exists(fs, q)} |-> fs[p].mtime]

\* a faulty listing, which also reports a known path whose modification time
\* differs from the recorded one: C34_TestedAtMostOnce must not hold of it
new_files_by_mtime(kn, fs) ==
    LET F[i \in 0..Len(PathOrder)] ==
            IF i = 0 THEN <<>>
            ELSE LET p == PathOrder[i] IN
                 IF Exists(fs, p) /\ (p \notin DOMAIN kn \/ kn[p] # fs[p].mtime)
                 THEN Append(F[i - 1], p)
                 ELSE F[i - 1]
    IN F[Len(PathOrder)]

\* _new_files
new_files(kn, fs) ==
    LET F[i \in 0..Len(PathOrder)] ==
            IF i = 0 THEN <<>>
            ELSE IF Exists(fs, PathOrder[i]) /\ PathOrder[i] \notin DOMAIN kn
                 THEN Append(F[i - 1], PathOrder[i])
                 ELSE F[i - 1]
    IN F[Len(PathOrder)]

\* a faulty quarantine, which copies the file and leaves it where it was:
\* C11_RejectedFileIsGone must not hold of it
quarantine_copy(path, fs, q) ==
    IF Exists(fs, path)
    THEN [files |-> fs, quarantine |-> [q EXCEPT ![path.stem] = fs[path].content]]
    ELSE [files |-> fs, quarantine |-> q]

\* _quarantine: shutil.move to the quarantine directory under the same file
\* name; when the file is gone the OSError is logged and nothing moves
quarantine_move(path, fs, q) ==
    IF Exists(fs, path)
    THEN [files |-> [fs EXCEPT ![path] = NoFile],
          quarantine |-> [q EXCEPT ![path.stem] = fs[path].content]]
    ELSE [files |-> fs, quarantine |-> q]

\* a faulty registration, which puts a class in the registry before its
\* operations are in place: C16_LookupSeesWholeEntries must not hold of it
RegisterAllPartial(registry, classes, name_attr) ==
    LET names == {c[name_attr] : c \in classes} IN
    [n \in DOMAIN registry \cup names |->
        IF n \in names
        THEN [(CHOOSE c \in classes : c[name_attr] = n) EXCEPT !.get_spawn_cmd = NoMethod]
        ELSE registry[n]]

\* a faulty registration, which files a class under its module's name:
\* C15_NameEqualsKey must not hold of it
RegisterAllByModule(registry, classes, name_attr) ==
    LET names == {c.module : c \in classes} IN
    [n \in DOMAIN registry \cup names |->
        IF n \in names THEN CHOOSE c \in classes : c.module = n ELSE registry[n]]

\* registry[cls.<name_attr>] = cls for each class of classes
RegisterAll(registry, classes, name_attr) ==
    LET names == {c[name_attr] : c \in classes} IN
    [n \in DOMAIN registry \cup names |->
        IF n \in names THEN CHOOSE c \in classes : c[name_attr] = n ELSE registry[n]]

\* _hot_register: import <dir>.<stem> again from the file as it is now, then
\* register every subclass of that module with a non-empty name.  A missing
\* file is an ImportError (nothing is registered); a module that raises ends
\* the call with that exception.
hot_register(path, fs, subs, tool_registry, brain_reg) ==
    LET module == path.dir \o "." \o path.stem
        unchanged == [subclasses |-> subs, TOOL_REGISTRY |-> tool_registry,
                      brain_registry |-> brain_reg, raised |-> FALSE]
    IN
    IF path.dir \notin {"tools", "brains"} \/ ~Exists(fs, path) THEN unchanged
    ELSE IF LoadRaises(fs[path].content) THEN [unchanged EXCEPT !.raised = TRUE]
    ELSE LET subs2 == subs \cup ClassesOf(fs[path].content, module) IN
         IF path.dir = "tools"
         THEN [unchanged EXCEPT
                 !.subclasses = subs2,
                 !.TOOL_REGISTRY =
                     RegisterAll(tool_registry,
                                 {c \in subs2 : c.base = "BaseTool" /\ c.module = module
                                                /\ c.tool_name # ""},
                                 "tool_name")]
         ELSE [unchanged EXCEPT
                 !.subclasses = subs2,
                 !.brain_registry =
                     RegisterAll(brain_reg,
                                 {c \in subs2 : c.base = "BaseBrain" /\ c.module = module
                                                /\ c.brain_name # ""},
                                 "brain_name")]

\* a faulty branch, which admits whatever the smoke test said:
\* C10_OneActionPerNewPath must not hold of it
WatcherBranchAlwaysAdmits(ok) == "hot_register"

\* watch_for_new_modules: `if result.ok: _hot_register(...) else: _quarantine(...)`
WatcherBranch(ok) == IF ok THEN "hot_register" ELSE "quarantine"

\* watch_for_new_modules, from the return of smoke_test.run(path) to the end of
\* the loop body: the branch, then known[path] = mtime or 0.0.  subs is
\* BaseTool.__subclasses__() after the smoke test's load.
Conclude(path, result, subs) ==
    LET act == WatcherBranch(result.ok)
        reg == hot_register(path, files, subs, TOOL_REGISTRY, brain_registry)
        mv == quarantine_move(path, files, quarantine)
        fs2 == IF act = "quarantine" THEN mv.files ELSE files
        entry == [path |-> path, ok |-> result.ok, reason |-> result.reason, act |-> act]
    IN
    /\ wlog' = Append(wlog, entry)
    /\ trial' = <<>>
    /\ files' = fs2
    /\ quarantine' = IF act = "quarantine" THEN mv.quarantine ELSE quarantine
    /\ subclasses' = IF act = "hot_register" THEN reg.subclasses ELSE subs
    /\ TOOL_REGISTRY' = IF act = "hot_register" THEN reg.TOOL_REGISTRY ELSE TOOL_REGISTRY
    /\ brain_registry' = IF act = "hot_register" THEN reg.brain_registry ELSE brain_registry
    /\ IF act = "hot_register" /\ reg.raised
       THEN /\ wpc' = "crashed"
            /\ UNCHANGED <<known, newq>>
       ELSE /\ known' = [p \in DOMAIN known \cup {path} |->
                           IF p = path
                           THEN (IF Exists(fs2, path) THEN fs2[path].mtime ELSE 0)
                           ELSE known[p]]
            /\ newq' = Tail(newq)
            /\ wpc' = IF Tail(newq) = <<>> THEN "sleep" ELSE "next"
    /\ UNCHANGED <<clock, all_issues>>

\* a plugin file is written at a path (created or overwritten)
DropFile(path, content) ==
    /\ clock < MaxClock
    /\ clock' = clock + 1
    /\ files' = [files EXCEPT ![path] = File(content, clock + 1)]
    /\ UNCHANGED <<quarantine, known, wpc, newq, trial, wlog, subclasses, effects, all_issues>>
    /\ UNCHANGED <<engineVars, registryVars, sanitizerVars>>

\* a plugin file is deleted
RemoveFile(path) ==
    /\ Exists(files, path)
    /\ files' = [files EXCEPT ![path] = NoFile]
    /\ UNCHANGED <<quarantine, clock, known, wpc, newq, trial, wlog, subclasses, effects,
                   all_issues>>
    /\ UNCHANGED <<engineVars, registryVars, sanitizerVars>>

\* watch_for_new_modules: known = _snapshot(base_dir)
WatcherStart ==
    /\ wpc = "idle"
    /\ known' = snapshot(files)
    /\ wpc' = "sleep"
    /\ UNCHANGED <<files, quarantine, clock, newq, trial, wlog, subclasses, effects, all_issues>>
    /\ UNCHANGED <<engineVars, registryVars, sanitizerVars>>

\* watch_for_new_modules: asyncio.sleep(poll_interval) ends and _new_files
\* lists the new paths
WatcherPoll ==
    /\ wpc = "sleep"
    /\ new_files(known, files) # <<>>
    /\ newq' = new_files(known, files)
    /\ wpc' = "next"
    /\ UNCHANGED <<files, quarantine, clock, known, trial, wlog, subclasses, effects, all_issues>>
    /\ UNCHANGED <<engineVars, registryVars, sanitizerVars>>

\* watch_for_new_modules: smoke_test.run(path) for the next new path, up to
\* the await of run_local({}); when the test ends before that, the loop body
\* runs to its end in the same step
WatcherSmoke ==
    /\ wpc = "next"
    /\ LET path == Head(newq)
           loaded == Exists(files, path) /\ ~LoadRaises(files[path].content)
           defined == IF loaded THEN ClassesOf(files[path].content, SmokeModule(path))
                      ELSE {}
           subs == subclasses \cup defined
           new == {c \in defined \ subclasses : c.base = "BaseTool" /\ c.tool_name # ""}
       IN
       \/ /\ new = {}
          /\ Conclude(path, SmokeUntilTrial(loaded, FALSE, GoodTool("")), subs)
       \/ \E tool_cls \in new :
            IF SmokeUntilTrial(loaded, TRUE, tool_cls) = Suspended
            THEN /\ trial' = <<[path |-> path, tool_cls |-> tool_cls]>>
                 /\ subclasses' = subs
                 /\ wpc' = "trial"
                 /\ UNCHANGED <<files, quarantine, clock, known, newq, wlog, registryVars,
                                all_issues>>
            ELSE Conclude(path, SmokeUntilTrial(loaded, TRUE, tool_cls), subs)
    /\ UNCHANGED <<engineVars, effects, sanitizerVars>>

\* smoke_test.run: the awaited run_local({}) returns or raises; run returns
\* and the loop body runs to its end
WatcherTrialEnds ==
    /\ wpc = "trial"
    /\ Conclude(trial[1].path, SmokeAfterTrial(trial[1].tool_cls), subclasses)
    /\ effects' = effects \cup {TrialCall(trial[1].tool_cls.io[k]) :
                                    k \in DOMAIN trial[1].tool_cls.io}
    /\ UNCHANGED <<engineVars, sanitizerVars>>

\* ------------------------------------------------------------------------
\* Specifications
\* ------------------------------------------------------------------------
\* After construction: Engine.__init__ has built the semaphores, the Router
\* and the BrainRegistry; the task table is empty; the bundled files are on
\* disk; neither Engine.run nor watch_for_new_modules has started.  The retry
\* budget is a setting: any value from 1 to MaxBudget.
Init ==
    /\ tasks = <<>>
    /\ running = FALSE
    /\ pollpc = "idle"
    /\ fetched = <<>>
    /\ handlers = <<>>
    /\ llm_sem = llm_semaphore_limit
    /\ brain_sem = cloud_brain_semaphore_limit
    /\ max_retries \in 1..MaxBudget
    /\ spawned = {}
    /\ TOOL_REGISTRY = InitialToolRegistry
    /\ brain_registry = InitialBrainRegistry
    /\ files = [p \in Paths |-> IF p \in BundledPaths THEN File("bundled", 1) ELSE NoFile]
    /\ quarantine = [n \in {p.stem : p \in Paths} |-> ""]
    /\ clock = 1
    /\ known = [p \in {} |-> 0]
    /\ wpc = "idle"
    /\ newq = <<>>
    /\ trial = <<>>
    /\ wlog = <<>>
    /\ subclasses = Range(InitialToolRegistry) \cup Range(InitialBrainRegistry)
    /\ effects = {}
    /\ all_issues = <<>>
    /\ checked = <<>>

\* the Dispatcher: Engine.run and the handlers it creates
EngineNext ==
    \/ EngineRun
    \/ EngineStop
    \/ PollWake
    \/ PollFetch
    \/ PollDispatch
    \/ Enqueue
    \/ \E h \in DOMAIN handlers : MarkRouting(h)
    \/ \E h \in DOMAIN handlers : RouteAcquire(h)
    \/ \E h \in DOMAIN handlers, d \in Decisions : RouteReturn(h, d)
    \/ \E h \in DOMAIN handlers, kind \in FailureKinds : RouteRetry(h, kind)
    \/ \E h \in DOMAIN handlers, kind \in FailureKinds : RouteExhausted(h, kind)
    \/ \E h \in DOMAIN handlers : BackoffDone(h)
    \/ \E h \in DOMAIN handlers : MarkExecuting(h)
    \/ \E h \in DOMAIN handlers : LocalStart(h)
    \/ \E h \in DOMAIN handlers : LocalLookupFails(h)
    \/ \E h \in DOMAIN handlers : RunLocalReturns(h)
    \/ \E h \in DOMAIN handlers : RunLocalRaises(h)
    \/ \E h \in DOMAIN handlers : SpawnPrepare(h)
    \/ \E h \in DOMAIN handlers : SpawnAcquire(h)
    \/ \E h \in DOMAIN handlers : SpawnCreated(h)
    \/ \E h \in DOMAIN handlers : SpawnFails(h)
    \/ \E h \in DOMAIN handlers : ProcWaitDone(h)
    \/ \E h \in DOMAIN handlers : MarkDone(h)

\* the steps of the poll loop of Engine.run
PollNext ==
    \/ PollWake
    \/ PollFetch
    \/ PollDispatch

\* the steps of the asyncio task that runs handler h
HandlerNext(h) ==
    /\ h \in DOMAIN handlers
    /\ \/ MarkRouting(h)
       \/ RouteAcquire(h)
       \/ \E d \in Decisions : RouteReturn(h, d)
       \/ \E kind \in FailureKinds : RouteRetry(h, kind)
       \/ \E kind \in FailureKinds : RouteExhausted(h, kind)
       \/ BackoffDone(h)
       \/ MarkExecuting(h)
       \/ LocalStart(h)
       \/ LocalLookupFails(h)
       \/ RunLocalReturns(h)
       \/ RunLocalRaises(h)
       \/ SpawnPrepare(h)
       \/ SpawnAcquire(h)
       \/ SpawnCreated(h)
       \/ SpawnFails(h)
       \/ ProcWaitDone(h)
       \/ MarkDone(h)

\* The event loop runs every task that is ready: the poll loop takes its next
\* step, and so does each handler; every awaited call (the database, the
\* classifier, a sleep, a tool, a subprocess) ends, and asyncio.Semaphore
\* wakes its waiters in turn, so that a handler that waits for a slot which
\* is free again and again gets it.
Fairness ==
    /\ WF_vars(PollNext)
    /\ \A h \in 1..MaxHandlers : SF_vars(HandlerNext(h))

\* python -m tools.runner <tool_name> spawn <params>, run from a shell
RunnerNext ==
    \E d \in Decisions : RunnerSpawn(d.tool_name, d.params)

\* the Watcher and the plugin directories
WatcherNext ==
    \/ \E path \in PluginPaths, content \in Contents : DropFile(path, content)
    \/ \E path \in PluginPaths : RemoveFile(path)
    \/ WatcherStart
    \/ WatcherPoll
    \/ WatcherSmoke
    \/ WatcherTrialEnds

\* the Watcher's passes over files that stop the smoke test at each of its steps
SmokeNext ==
    \/ \E path \in PluginPaths, content \in SmokeContents : DropFile(path, content)
    \/ WatcherStart
    \/ WatcherPoll
    \/ WatcherSmoke
    \/ WatcherTrialEnds

\* the Watcher, and validate_registries called at any point of its run
GuardianNext ==
    \/ WatcherNext
    \/ \E provider_classes \in ProviderLists : ValidateRegistries(provider_classes)

\* tools/__init__.py and BrainRegistry._load_all when plugin files are in the
\* directory dir at startup: the modules are imported in the order of their
\* names, and every subclass with a non-empty name is registered under it
startup_registry(fs, dir, bundled, base, name_attr) ==
    LET F[i \in 0..Len(PathOrder)] ==
            IF i = 0 THEN bundled
            ELSE LET p == PathOrder[i] IN
                 IF p.dir = dir /\ p \in PluginPaths /\ Exists(fs, p)
                 THEN RegisterAll(F[i - 1],
                                  {c \in ClassesOf(fs[p].content, p.dir \o "." \o p.stem) :
                                       c.base = base /\ c[name_attr] # ""},
                                  name_attr)
                 ELSE F[i - 1]
    IN F[Len(PathOrder)]

\* After construction, when plugin files were in tools/ and brains/ before the
\* program started: the registries are the ones startup loading built from them
StartupInit ==
    /\ tasks = <<>>
    /\ running = FALSE
    /\ pollpc = "idle"
    /\ fetched = <<>>
    /\ handlers = <<>>
    /\ llm_sem = llm_semaphore_limit
    /\ brain_sem = cloud_brain_semaphore_limit
    /\ max_retries \in 1..MaxBudget
    /\ spawned = {}
    /\ \E startup \in [PluginPaths -> StartupContents \cup {""}] :
           files = [p \in Paths |->
                       IF p \in BundledPaths THEN File("bundled", 1)
                       ELSE IF startup[p] = "" THEN NoFile
                       ELSE File(startup[p], 1)]
    /\ TOOL_REGISTRY =
           startup_registry(files, "tools", InitialToolRegistry, "BaseTool", "tool_name")
    /\ brain_registry =
           startup_registry(files, "brains", InitialBrainRegistry, "BaseBrain", "brain_name")
    /\ quarantine = [n \in {p.stem : p \in Paths} |-> ""]
    /\ clock = 1
    /\ known = [p \in {} |-> 0]
    /\ wpc = "idle"
    /\ newq = <<>>
    /\ trial = <<>>
    /\ wlog = <<>>
    /\ subclasses = Range(TOOL_REGISTRY) \cup Range(brain_registry)
    /\ effects = {}
    /\ all_issues = <<>>
    /\ checked = <<>>

\* the Interface Validator, called on the registries startup loading built
ValidatorNext ==
    \E provider_classes \in ProviderLists : ValidateRegistries(provider_classes)

\* the decisions whose lookup meets the Watcher and the Validator: a tool a
\* plugin file brings, a tool validate_registries removes, a bundled tool, a
\* name no file brings, and a handoff
LookupDecisions ==
    { RouterOutput("good_tool", EmptyParams, FALSE),
      RouterOutput("wrong_param", EmptyParams, FALSE),
      RouterOutput("arxiv", EmptyParams, FALSE),
      RouterOutput("nosuch", EmptyParams, FALSE),
      RouterOutput("arxiv", EmptyParams, TRUE) }

\* The Dispatcher with one task routed and marked executing, its handler about
\* to look the capability up, while watch_for_new_modules has not started yet
LookupInit ==
    /\ \E d \in LookupDecisions :
          /\ tasks = update_task_status(enqueue_task(<<>>, EmptyDict), 1, "executing",
                                        Arg(d.tool_name),
                                        Arg([params |-> d.params, handoff |-> d.handoff]))
          /\ handlers = <<[NewHandler(1) EXCEPT !.pc = "executing", !.out = <<d>>]>>
    /\ running = TRUE
    /\ pollpc = "sleep"
    /\ fetched = <<>>
    /\ llm_sem = llm_semaphore_limit
    /\ brain_sem = cloud_brain_semaphore_limit
    /\ max_retries \in 1..MaxBudget
    /\ spawned = {}
    /\ TOOL_REGISTRY = InitialToolRegistry
    /\ brain_registry = InitialBrainRegistry
    /\ files = [p \in Paths |-> IF p \in BundledPaths THEN File("bundled", 1) ELSE NoFile]
    /\ quarantine = [n \in {p.stem : p \in Paths} |-> ""]
    /\ clock = 1
    /\ known = [p \in {} |-> 0]
    /\ wpc = "idle"
    /\ newq = <<>>
    /\ trial = <<>>
    /\ wlog = <<>>
    /\ subclasses = Range(InitialToolRegistry) \cup Range(InitialBrainRegistry)
    /\ effects = {}
    /\ all_issues = <<>>
    /\ checked = <<>>

\* What a call made by a run_local that the Dispatcher awaits reaches.
\* unittest.mock.patch and the assignment to core.db.atomic_write replace
\* attributes of the modules aiohttp, httpx and core.db, which every task of
\* the process shares: while smoke_test.run is between its patches and its
\* finally block (patched), a call that looks the attribute up when it is made
\* gets the MagicMock or _safe_write; otherwise it gets the original.
DispatcherCall(call, patched) ==
    [by |-> "dispatcher",
     target |-> call.target,
     reached |-> IF patched THEN TrialCall(call).reached
                 ELSE IF call.target = "core.db.atomic_write" THEN "outside" ELSE "network"]

\* _handle: tool.run_local(params), for a tool that calls network clients and
\* the write helper, makes its calls and returns
RunLocalWithIo(h) ==
    /\ handlers[h].pc = "running"
    /\ handlers[h].out[1].tool_name \in DOMAIN TOOL_REGISTRY
    /\ LET io == TOOL_REGISTRY[handlers[h].out[1].tool_name].io IN
       effects' = effects \cup {DispatcherCall(io[k], wpc = "trial") : k \in DOMAIN io}
    /\ handlers' = [handlers EXCEPT ![h].pc = "finishing"]
    /\ UNCHANGED <<tasks, running, pollpc, fetched, llm_sem, brain_sem, max_retries, spawned>>
    /\ UNCHANGED <<files, quarantine, clock, known, wpc, newq, trial, wlog, subclasses,
                   all_issues>>
    /\ UNCHANGED <<registryVars, sanitizerVars>>

\* the decisions for tools that make calls when they run: a plugin that looks
\* its client and the write helper up when it calls them, and one written as
\* tools/arxiv.py is
IoDecisions ==
    { RouterOutput("mocked_io", EmptyParams, FALSE),
      RouterOutput("imported_io", EmptyParams, FALSE) }

\* The Dispatcher with one task routed to such a tool and marked executing,
\* while watch_for_new_modules has not started yet
IoInit ==
    /\ \E d \in IoDecisions :
          /\ tasks = update_task_status(enqueue_task(<<>>, EmptyDict), 1, "executing",
                                        Arg(d.tool_name),
                                        Arg([params |-> d.params, handoff |-> d.handoff]))
          /\ handlers = <<[NewHandler(1) EXCEPT !.pc = "executing", !.out = <<d>>]>>
    /\ running = TRUE
    /\ pollpc = "sleep"
    /\ fetched = <<>>
    /\ llm_sem = llm_semaphore_limit
    /\ brain_sem = cloud_brain_semaphore_limit
    /\ max_retries \in 1..MaxBudget
    /\ spawned = {}
    /\ TOOL_REGISTRY = InitialToolRegistry
    /\ brain_registry = InitialBrainRegistry
    /\ files = [p \in Paths |-> IF p \in BundledPaths THEN File("bundled", 1) ELSE NoFile]
    /\ quarantine = [n \in {p.stem : p \in Paths} |-> ""]
    /\ clock = 1
    /\ known = [p \in {} |-> 0]
    /\ wpc = "idle"
    /\ newq = <<>>
    /\ trial = <<>>
    /\ wlog = <<>>
    /\ subclasses = Range(InitialToolRegistry) \cup Range(InitialBrainRegistry)
    /\ effects = {}
    /\ all_issues = <<>>
    /\ checked = <<>>

\* a handler's tool execution and the Watcher's passes over the plugin files
\* dropped in tools/, in one process
IoNext ==
    \/ \E h \in DOMAIN handlers : LocalStart(h)
    \/ \E h \in DOMAIN handlers : LocalLookupFails(h)
    \/ \E h \in DOMAIN handlers : RunLocalWithIo(h)
    \/ \E h \in DOMAIN handlers : MarkDone(h)
    \/ \E path \in {Path("tools", "alpha"), Path("tools", "beta")},
          content \in {"mocked_io", "imported_io", "good_tool"} : DropFile(path, content)
    \/ WatcherStart
    \/ WatcherPoll
    \/ WatcherSmoke
    \/ WatcherTrialEnds

\* The Dispatcher just after Engine.run has created one handler for each of
\* NumTasks pending tasks (asyncio.create_task(self._handle(task, db)))
HandlersInit ==
    /\ tasks = [t \in 1..NumTasks |->
                   [status |-> "pending", tool_name |-> None_, metadata |-> EmptyDict]]
    /\ handlers = [t \in 1..NumTasks |-> NewHandler(t)]
    /\ running = TRUE
    /\ pollpc = "sleep"
    /\ fetched = <<>>
    /\ llm_sem = llm_semaphore_limit
    /\ brain_sem = cloud_brain_semaphore_limit
    /\ max_retries \in 1..MaxBudget
    /\ spawned = {}
    /\ TOOL_REGISTRY = InitialToolRegistry
    /\ brain_registry = InitialBrainRegistry
    /\ files = [p \in Paths |-> IF p \in BundledPaths THEN File("bundled", 1) ELSE NoFile]
    /\ quarantine = [n \in {p.stem : p \in Paths} |-> ""]
    /\ clock = 1
    /\ known = [p \in {} |-> 0]
    /\ wpc = "idle"
    /\ newq = <<>>
    /\ trial = <<>>
    /\ wlog = <<>>
    /\ subclasses = Range(InitialToolRegistry) \cup Range(InitialBrainRegistry)
    /\ effects = {}
    /\ all_issues = <<>>
    /\ checked = <<>>

\* the handlers' steps, the poll loop asleep
HandlersNext == \E h \in 1..MaxHandlers : HandlerNext(h)

\* the decisions whose execution is followed to its end: each decision of the
\* Dispatcher, and a handoff for a name the Tool registry does not hold
ExecDecisions == Decisions \cup {RouterOutput("nosuch", EmptyParams, TRUE)}

\* The Dispatcher with NumTasks tasks routed, each handler holding its decision
\* and about to mark its task executing, in a deployment whose brains/
\* directory holds the configured brain's module or does not
ExecInit ==
    /\ \E ds \in [1..NumTasks -> ExecDecisions] :
          /\ tasks = [t \in 1..NumTasks |->
                         [status |-> "routing", tool_name |-> None_, metadata |-> EmptyDict]]
          /\ handlers = [t \in 1..NumTasks |->
                            [NewHandler(t) EXCEPT !.pc = "routed", !.out = <<ds[t]>>]]
    /\ running = TRUE
    /\ pollpc = "sleep"
    /\ fetched = <<>>
    /\ llm_sem = llm_semaphore_limit
    /\ brain_sem = cloud_brain_semaphore_limit
    /\ max_retries \in 1..MaxBudget
    /\ spawned = {}
    /\ TOOL_REGISTRY = InitialToolRegistry
    /\ brain_registry \in {InitialBrainRegistry, [n \in {} |-> ClaudeCodeBrain]}
    /\ files = [p \in Paths |->
                   IF p = Path("tools", "arxiv") \/ p.stem \in DOMAIN brain_registry
                   THEN File("bundled", 1) ELSE NoFile]
    /\ quarantine = [n \in {p.stem : p \in Paths} |-> ""]
    /\ clock = 1
    /\ known = [p \in {} |-> 0]
    /\ wpc = "idle"
    /\ newq = <<>>
    /\ trial = <<>>
    /\ wlog = <<>>
    /\ subclasses = Range(TOOL_REGISTRY) \cup Range(brain_registry)
    /\ effects = {}
    /\ all_issues = <<>>
    /\ checked = <<>>

\* _handle from the write of executing to its end
ExecNext ==
    \/ \E h \in DOMAIN handlers : MarkExecuting(h)
    \/ \E h \in DOMAIN handlers : LocalStart(h)
    \/ \E h \in DOMAIN handlers : LocalLookupFails(h)
    \/ \E h \in DOMAIN handlers : RunLocalReturns(h)
    \/ \E h \in DOMAIN handlers : RunLocalRaises(h)
    \/ \E h \in DOMAIN handlers : SpawnPrepare(h)
    \/ \E h \in DOMAIN handlers : SpawnLookupFails(h)
    \/ \E h \in DOMAIN handlers : SpawnAcquire(h)
    \/ \E h \in DOMAIN handlers : SpawnCreated(h)
    \/ \E h \in DOMAIN handlers : SpawnFails(h)
    \/ \E h \in DOMAIN handlers : ProcWaitDone(h)
    \/ \E h \in DOMAIN handlers : MarkDone(h)

\* the handler's lookup, the Watcher admitting the files dropped in tools/ and
\* brains/, and the Validator
LookupNext ==
    \/ \E h \in DOMAIN handlers : LocalStart(h)
    \/ \E h \in DOMAIN handlers : LocalLookupFails(h)
    \/ \E h \in DOMAIN handlers : SpawnPrepare(h)
    \/ \E path \in {Path("tools", "alpha"), Path("brains", "gamma")},
          content \in {"good_tool", "wrong_param", "good_brain"} : DropFile(path, content)
    \/ WatcherStart
    \/ WatcherPoll
    \/ WatcherSmoke
    \/ WatcherTrialEnds
    \/ \E provider_classes \in ProviderLists : ValidateRegistries(provider_classes)

\* the Command Sanitizer, called on the commands of at most MaxCmdLen characters
SanitizerNext ==
    /\ checked = <<>>
    /\ \E cmd \in Commands(MaxCmdLen) \cup Phrases(MaxPieces) : CheckSpawnCmd(cmd)

\* the task table, written by enqueue_task and update_task_status
DbNext ==
    \/ Enqueue
    \/ \E task_id \in 1..NumTasks, status \in TaskStatus,
          tool_name \in ToolNameArgs, metadata \in MetadataArgs :
            UpdateTaskStatus(task_id, status, tool_name, metadata)

Next == EngineNext

\* the Dispatcher run through main()
MainNext ==
    \/ EngineNext
    \/ AsyncioRunEnds

Spec == Init /\ [][Next]_vars

WatcherSpec == Init /\ [][WatcherNext]_vars

RunnerSpec == Init /\ [][RunnerNext]_vars

GuardianSpec == Init /\ [][GuardianNext]_vars

SmokeSpec == Init /\ [][SmokeNext]_vars

IoSpec == IoInit /\ [][IoNext]_vars

ValidatorSpec == StartupInit /\ [][ValidatorNext]_vars

LookupSpec == LookupInit /\ [][LookupNext]_vars

SanitizerSpec == Init /\ [][SanitizerNext]_vars

DbSpec == Init /\ [][DbNext]_vars

MainSpec == Init /\ [][MainNext]_vars

ExecSpec == ExecInit /\ [][ExecNext]_vars

\* the Dispatcher under the scheduling of the event loop
FairSpec == Init /\ [][Next]_vars /\ Fairness

\* The handlers under the event loop's scheduling: each handler that is ready
\* again and again takes its next step (see Fairness)
HandlersFairSpec ==
    HandlersInit /\ [][HandlersNext]_vars /\ \A h \in 1..MaxHandlers : SF_vars(HandlerNext(h))



\* ------------------------------------------------------------------------
\* Properties of the Dispatcher (checked under Spec)
\* ------------------------------------------------------------------------
\* C1: every command a subprocess was created from had check_spawn_cmd return
\* ok=true for it (no brain command is spawned unless the sanitizer accepts it).
C1_SpawnedOnlyIfSanitizerOk ==
    \A c \in spawned : check_spawn_cmd(c).ok

\* C2: whenever the handling of a task ended with an error (route, the registry
\* lookup, run_local or the brain spawn raised), the task's persisted status is
\* failed and its persisted metadata holds the error description.
C2_ErrorPersistedAsFailed ==
    \A h \in DOMAIN handlers :
        handlers[h].pc = "crashed" =>
            /\ tasks[handlers[h].task].status = "failed"
            /\ "error" \in DOMAIN tasks[handlers[h].task].metadata

\* C3: in every step each task's persisted status either stays or changes along
\* pending -> routing -> executing -> done or routing/executing -> failed; done
\* and failed are never left.
C3_StatusFollowsStateMachine ==
    [][\A t \in DOMAIN tasks :
          tasks'[t].status # tasks[t].status =>
              <<tasks[t].status, tasks'[t].status>> \in
                  { <<"pending", "routing">>, <<"routing", "executing">>,
                    <<"executing", "done">>, <<"routing", "failed">>,
                    <<"executing", "failed">> }]_vars

\* C4: no task is handed to Engine._handle more than once: no two handlers
\* were created for the same task.
C4_OneHandlerPerTask ==
    \A h1, h2 \in DOMAIN handlers : h1 # h2 => handlers[h1].task # handlers[h2].task

\* the handler crashes in this step
Crashes(h) == handlers[h].pc # "crashed" /\ handlers'[h].pc = "crashed"

\* C5: a step in which the handling of one task fails leaves every persisted
\* row of every other task, the poll loop (its position, what it fetched and
\* the running flag) and every other handler as they were; and in every step a
\* task's row changes only by a step of a handler of that very task.
C5_FailureIsContained ==
    [][/\ \A h \in DOMAIN handlers :
             Crashes(h) =>
                 /\ \A t \in DOMAIN tasks : t # handlers[h].task => tasks'[t] = tasks[t]
                 /\ running' = running /\ pollpc' = pollpc /\ fetched' = fetched
                 /\ \A g \in DOMAIN handlers : g # h => handlers'[g] = handlers[g]
       /\ \A t \in DOMAIN tasks :
             tasks'[t] # tasks[t] =>
                 \E h \in DOMAIN handlers :
                     handlers[h].task = t /\ handlers'[h] # handlers[h]]_vars

\* C5, its case: the handling of one task has failed, another task is done,
\* and the poll loop is still polling
C5_Witness ==
    /\ running /\ pollpc = "sleep"
    /\ \E h, g \in DOMAIN handlers :
          /\ handlers[h].pc = "crashed"
          /\ handlers[g].task # handlers[h].task
          /\ handlers[g].pc = "done"
          /\ tasks[handlers[g].task].status = "done"

\* a handler whose route call raised (the only failure before a decision exists)
RouteRaised(h) == handlers[h].pc = "crashed" /\ handlers[h].out = <<>>

\* C6: a route call begins at most max_retries classifier calls; a call that
\* answers well-formed text ends the route call with that decision, without a
\* further call; a call that fails (timeout, client error, malformed text)
\* uses up the attempt it was made in, whatever its kind; and route raises only
\* after max_retries calls have failed, with a message naming that count.
C6_RetryBudget ==
    /\ [](\A h \in DOMAIN handlers :
            /\ handlers[h].calls <= max_retries
            /\ handlers[h].pc = "route" => handlers[h].calls = handlers[h].attempt - 1
            /\ handlers[h].pc \in {"calling", "backoff"} =>
                   handlers[h].calls = handlers[h].attempt
            /\ handlers[h].pc = "routed" =>
                   handlers[h].calls >= 1 /\ handlers[h].out[1] \in Decisions
            /\ RouteRaised(h) =>
                   /\ handlers[h].calls = max_retries
                   /\ handlers[h].exc = "Ollama failed after "
                                        \o ToString(handlers[h].calls) \o " attempt(s)")
    /\ [][\A h \in DOMAIN handlers :
             /\ (handlers[h].pc = "calling" /\ handlers'[h].pc # "calling") =>
                    /\ handlers'[h].calls = handlers[h].calls
                    /\ \/ handlers'[h].pc = "routed"
                       \/ /\ handlers'[h].pc = "backoff"
                          /\ handlers'[h].last_exc \in FailureKinds
                          /\ handlers'[h].attempt = handlers[h].attempt
                          /\ handlers[h].attempt < max_retries
                       \/ /\ RouteRaised(h)'
                          /\ handlers[h].attempt = max_retries
             /\ (handlers[h].pc = "backoff" /\ handlers'[h].pc # "backoff") =>
                    /\ handlers'[h].pc = "route"
                    /\ handlers'[h].attempt = handlers[h].attempt + 1]_vars

\* C6, its case: with a budget of MaxBudget a route call has raised after
\* MaxBudget failed calls, and another has returned a decision on a later
\* attempt than the first
C6_Witness ==
    /\ max_retries = MaxBudget
    /\ \E h, g \in DOMAIN handlers :
          /\ RouteRaised(h) /\ handlers[h].calls = MaxBudget
          /\ handlers[g].pc = "routed" /\ handlers[g].calls > 1

\* C7: the backoff waits of a route call are 2^0, 2^1, ... in this order (each
\* double the one before), one after each failed attempt that is not the last
\* of the budget: none after a successful attempt, none after the final one.
C7_BackoffSchedule ==
    \A h \in DOMAIN handlers :
        LET w == handlers[h].waits
            failed == CASE handlers[h].pc \in {"calling", "routed"} -> handlers[h].calls - 1
                        [] handlers[h].pc \in {"route", "backoff"} -> handlers[h].calls
                        [] RouteRaised(h) -> handlers[h].calls
                        [] OTHER -> 0
        IN /\ \A k \in 1..Len(w) : w[k] = 2 ^ (k - 1)
           /\ \A k \in 2..Len(w) : w[k] = 2 * w[k - 1]
           /\ Len(w) = IF failed < max_retries THEN failed ELSE max_retries - 1

\* C7, its case (budget 3, two failed calls, the last of them a timeout, then
\* a well-formed answer): route has returned the decision after two waits
C7_Witness ==
    /\ max_retries = 3
    /\ \E h \in DOMAIN handlers :
          /\ handlers[h].pc = "routed"
          /\ handlers[h].calls = 3
          /\ handlers[h].last_exc = "timeout"
          /\ handlers[h].waits = <<1, 2>>
          /\ handlers[h].out[1] \in Decisions

InFlightCalls == {h \in DOMAIN handlers : handlers[h].pc = "calling"}
InFlightLaunches == {h \in DOMAIN handlers : handlers[h].pc \in {"spawning", "proc_wait"}}

\* C8: in every state the classifier calls in flight are at most
\* llm_semaphore_limit and the brain launches in flight are at most
\* cloud_brain_semaphore_limit (each limiter's free slots being the rest).
C8_LimitersBound ==
    /\ Cardinality(InFlightCalls) <= llm_semaphore_limit
    /\ Cardinality(InFlightLaunches) <= cloud_brain_semaphore_limit
    /\ llm_sem = llm_semaphore_limit - Cardinality(InFlightCalls)
    /\ brain_sem = cloud_brain_semaphore_limit - Cardinality(InFlightLaunches)

\* C8, its case: one handler holds the brain slot while another waits for it,
\* or one holds the LLM slot while another waits for it
C8_Witness ==
    \E h, g \in DOMAIN handlers :
        \/ handlers[h].pc = "proc_wait" /\ handlers[g].pc = "spawn_wait" /\ brain_sem = 0
        \/ handlers[h].pc = "calling" /\ handlers[g].pc = "route" /\ llm_sem = 0

\* ------------------------------------------------------------------------
\* Properties of the Watcher and the registries (checked under WatcherSpec)
\* ------------------------------------------------------------------------
\* the module name _hot_register imports the file of a log entry under
AdmittedModule(e) == e.path.dir \o "." \o e.path.stem

\* C9: in every state each entry of the Tool registry has no error-severity
\* issue under the Tool role check, each entry of the Brain registry none under
\* the Brain role check, and each entry the Watcher added comes from a file
\* whose smoke test returned ok.
C9_RegistryEntriesValidated ==
    /\ \A n \in DOMAIN TOOL_REGISTRY :
          /\ ~HasError(check_tool(TOOL_REGISTRY[n]))
          /\ TOOL_REGISTRY[n] \notin Range(InitialToolRegistry) =>
                 \E i \in DOMAIN wlog :
                     wlog[i].ok /\ AdmittedModule(wlog[i]) = TOOL_REGISTRY[n].module
    /\ \A n \in DOMAIN brain_registry :
          /\ ~HasError(check_brain(brain_registry[n]))
          /\ brain_registry[n] \notin Range(InitialBrainRegistry) =>
                 \E i \in DOMAIN wlog :
                     wlog[i].ok /\ AdmittedModule(wlog[i]) = brain_registry[n].module

C12_RaisingModulesNotAdmitted ==
    \A e \in Range(TOOL_REGISTRY) \cup Range(brain_registry) : e.run # "raises"

\* C13: a path the Watcher recorded as absent (it was quarantined, or was gone
\* when its pass ended) and at which a file exists again is in the list
\* _new_files computes at the next poll.
C13_ReintroducedIsNewAgain ==
    \A p \in PluginPaths :
        (p \in DOMAIN known /\ known[p] = 0 /\ Exists(files, p)) =>
            \E i \in 1..Len(new_files(known, files)) : new_files(known, files)[i] = p

\* C14: every call that run_local({}) makes to a network client or to the
\* persistent-write helper during a smoke-test trial reaches a mock, or writes
\* nowhere but under the disposable directory, however the candidate came by
\* its reference to what it calls.
C14_TrialIsIsolated ==
    \A e \in effects : e.reached \in {"mock", "disposable"}

\* C15: in every state each entry of the Tool registry declares as tool_name
\* the key it is filed under, and each entry of the Brain registry declares as
\* brain_name the key it is filed under.
C15_NameEqualsKey ==
    /\ \A n \in DOMAIN TOOL_REGISTRY : TOOL_REGISTRY[n].tool_name = n
    /\ \A n \in DOMAIN brain_registry : brain_registry[n].brain_name = n

\* C15, its case: the Watcher has hot-registered the tool of a new file, and
\* a run of validate_registries since has left it in the registry
C15_Witness ==
    /\ \E i \in DOMAIN wlog :
          /\ wlog[i].ok
          /\ \E n \in DOMAIN TOOL_REGISTRY \ DOMAIN InitialToolRegistry :
                 TOOL_REGISTRY[n].module = AdmittedModule(wlog[i])
    /\ all_issues # <<>>

\* a whole implementation: a class as some module defines it
Complete(cls) ==
    \/ cls \in Range(InitialToolRegistry) \cup Range(InitialBrainRegistry)
    \/ \E content \in Contents \cup StartupContents, p \in Paths :
           cls \in ClassesOf(content, p.dir \o "." \o p.stem)

\* C16: whenever a handler could read them, each registry holds under every
\* name a whole implementation declared under that name; and the handler's
\* lookup, whatever steps of the Watcher and of validate_registries came
\* before it, either finds no entry for its name (and the handler ends with
\* the lookup's error) or goes on with the whole implementation it found.
C16_LookupSeesWholeEntries ==
    /\ [](/\ \A n \in DOMAIN TOOL_REGISTRY :
                Complete(TOOL_REGISTRY[n]) /\ TOOL_REGISTRY[n].tool_name = n
          /\ \A n \in DOMAIN brain_registry :
                Complete(brain_registry[n]) /\ brain_registry[n].brain_name = n)
    /\ [][\A h \in DOMAIN handlers :
              (handlers[h].pc = "executing" /\ handlers'[h].pc # "executing") =>
                  IF handlers[h].out[1].handoff
                  THEN /\ default_cloud_brain \in DOMAIN brain_registry
                       /\ Complete(brain_registry[default_cloud_brain])
                       /\ handlers'[h].pc = "spawn_wait"
                  ELSE IF handlers[h].out[1].tool_name \in DOMAIN TOOL_REGISTRY
                  THEN /\ Complete(TOOL_REGISTRY[handlers[h].out[1].tool_name])
                       /\ handlers'[h].pc = "running"
                  ELSE /\ handlers'[h].pc = "crashed"
                       /\ handlers'[h].exc
                              = "Unknown tool: '" \o handlers[h].out[1].tool_name \o "'"
         ]_vars

\* C16, its case: the handler has looked up, and found, a tool the Watcher
\* hot-registered while the handler was waiting, in a run where
\* validate_registries has removed an entry
C16_Witness ==
    /\ handlers # <<>>
    /\ handlers[1].pc = "running"
    /\ handlers[1].out[1].tool_name = "good_tool"
    /\ \E i \in DOMAIN wlog : wlog[i].ok
    /\ \E k \in DOMAIN all_issues : all_issues[k].severity = "error"

\* ------------------------------------------------------------------------
\* Properties of the Interface Validator (checked under ValidatorSpec)
\* ------------------------------------------------------------------------
\* the issues validate_registries finds for the entry n of the Tool registry,
\* and for the entry n of the Brain registry
ToolIssues(n) ==
    check_tool(TOOL_REGISTRY[n]) \o scan_source_for_danger(TOOL_REGISTRY[n], files)
BrainIssues(n) ==
    check_brain(brain_registry[n]) \o scan_source_for_danger(brain_registry[n], files)

\* C17: a run of validate_registries leaves in each registry exactly the
\* entries none of whose issues has severity error, unchanged (so an entry with
\* no issue, or with warnings only, stays); and the list it returns holds every
\* issue of every tool and brain that was registered and of every provider of
\* the list it was given, and nothing else.
C17_ValidateRemovesExactlyErrors ==
    [][/\ DOMAIN TOOL_REGISTRY' =
              {n \in DOMAIN TOOL_REGISTRY :
                   \A k \in DOMAIN ToolIssues(n) : ToolIssues(n)[k].severity # "error"}
       /\ \A n \in DOMAIN TOOL_REGISTRY' : TOOL_REGISTRY'[n] = TOOL_REGISTRY[n]
       /\ DOMAIN brain_registry' =
              {n \in DOMAIN brain_registry :
                   \A k \in DOMAIN BrainIssues(n) : BrainIssues(n)[k].severity # "error"}
       /\ \A n \in DOMAIN brain_registry' : brain_registry'[n] = brain_registry[n]
       /\ \A n \in DOMAIN TOOL_REGISTRY : Range(ToolIssues(n)) \subseteq Range(all_issues')
       /\ \A n \in DOMAIN brain_registry : Range(BrainIssues(n)) \subseteq Range(all_issues')
       /\ \E provider_classes \in ProviderLists :
             /\ \A k \in DOMAIN provider_classes :
                    Range(check_provider(provider_classes[k])) \subseteq Range(all_issues')
             /\ Len(all_issues') =
                    Len(Extend([k \in 1..Len(Keys(DOMAIN TOOL_REGISTRY)) |->
                                   ToolIssues(Keys(DOMAIN TOOL_REGISTRY)[k])]))
                    + Len(Extend([k \in 1..Len(Keys(DOMAIN brain_registry)) |->
                                     BrainIssues(Keys(DOMAIN brain_registry)[k])]))
                    + Len(Extend([k \in DOMAIN provider_classes |->
                                     check_provider(provider_classes[k])]))
      ]_vars

\* C17, its case: a run has removed a tool for an error and has left in the
\* registry a tool whose only issue is the warning of the source scan
C17_Witness ==
    /\ \E i \in DOMAIN all_issues :
          /\ all_issues[i].severity = "error"
          /\ \A n \in DOMAIN TOOL_REGISTRY :
                 TOOL_REGISTRY[n].module # all_issues[i].module_name
    /\ \E j \in DOMAIN all_issues :
          /\ all_issues[j].severity = "warning"
          /\ \E n \in DOMAIN TOOL_REGISTRY :
                 TOOL_REGISTRY[n].module = all_issues[j].module_name

\* C18: of two runs of validate_registries in a row, on the same registries
\* with the same provider list, the second removes nothing and returns no
\* error that is not an error of a provider which the first returned too.
C18_SecondRunFindsNothingNew ==
    \A provider_classes \in ProviderLists :
        LET r1 == validate_registries(TOOL_REGISTRY, brain_registry, provider_classes, files)
            r2 == validate_registries(r1.TOOL_REGISTRY, r1.brain_registry,
                                      provider_classes, files)
        IN /\ r2.TOOL_REGISTRY = r1.TOOL_REGISTRY
           /\ r2.brain_registry = r1.brain_registry
           /\ \A k \in DOMAIN r2.all_issues :
                  r2.all_issues[k].severity = "error" =>
                      /\ r2.all_issues[k] \in Range(r1.all_issues)
                      /\ \E j \in DOMAIN provider_classes :
                             r2.all_issues[k] \in Range(check_provider(provider_classes[j]))

\* C18, its case: a run has removed a tool and a brain for their errors and
\* has returned the errors of the providers
C18_Witness ==
    /\ \E i \in DOMAIN all_issues : all_issues[i].issue_text = "run() must be async"
    /\ \E i \in DOMAIN all_issues :
          /\ all_issues[i].issue_text = "run_local must be async"
          /\ "bad_run_local" \notin DOMAIN TOOL_REGISTRY
    /\ \E i \in DOMAIN all_issues :
          /\ all_issues[i].issue_text
                 = "get_spawn_cmd must accept (self, tool_name: str, params: dict)"
          /\ "bad_brain" \notin DOMAIN brain_registry

\* C19: every registered tool whose declared name is blank, or whose run_local
\* or get_spawn_cmd takes a number of parameters other than one besides the
\* receiver, has an error under the Tool role check and is not in the Tool
\* registry validate_registries leaves.
C19_WrongArityIsAnError ==
    \A n \in DOMAIN TOOL_REGISTRY :
        LET cls == TOOL_REGISTRY[n] IN
        (\/ IsBlank(cls.tool_name)
         \/ Len(cls.run_local.params) # 2
         \/ Len(cls.get_spawn_cmd.params) # 2) =>
            /\ \E k \in DOMAIN check_tool(cls) : check_tool(cls)[k].severity = "error"
            /\ n \notin DOMAIN validate_registries(TOOL_REGISTRY, brain_registry,
                                                   <<>>, files).TOOL_REGISTRY

\* ------------------------------------------------------------------------
\* Properties of the Command Sanitizer (checked under SanitizerSpec)
\* ------------------------------------------------------------------------
\* C20: for a command that has a dollar sign followed by an opening
\* parenthesis, or a backquote, at any position, inside quotes or not,
\* check_spawn_cmd returns ok = false and one of its violations speaks of
\* substitution.
C20_SubstitutionAlwaysRejected ==
    \A k \in DOMAIN checked :
        LET cmd == checked[k].cmd IN
        (\E i \in 1..Len(cmd) :
            \/ SubSeq(cmd, i, i) = BACKQUOTE
            \/ i < Len(cmd) /\ SubSeq(cmd, i, i + 1) = "$(") =>
            /\ ~checked[k].result.ok
            /\ \E v \in DOMAIN checked[k].result.violations :
                   Contains(checked[k].result.violations[v], "substitution")

\* C20, its case: a command whose dollar-paren stands inside single quotes,
\* where the tokenizer sees no unquoted text, has been checked and rejected
C20_Witness ==
    /\ checked # <<>>
    /\ checked[1].cmd = "'$('"
    /\ tokenize_unquoted(checked[1].cmd) = <<"", "">>
    /\ ~checked[1].result.ok

\* the protected path prefixes of rule 3
ProtectedPrefixes == {"/etc", "/usr", "/sys", "/proc", "/root"}

\* what ends a path segment inside a command: the separator, white space, a
\* closing quote, or a shell metacharacter
SegmentEnd == {"/", " ", "\t", "\n", "'", "\"", ";", "|", "&", ")", "<", ">"}

\* cmd has the prefix pre at position i as a whole path segment
SegmentAt(cmd, pre, i) ==
    LET e == i + Len(pre) - 1 IN
    /\ e <= Len(cmd)
    /\ SubSeq(cmd, i, e) = pre
    /\ e = Len(cmd) \/ SubSeq(cmd, e + 1, e + 1) \in SegmentEnd

\* C21: for a command that has one of the protected prefixes /etc, /usr, /sys,
\* /proc, /root as a path segment (followed by a slash, white space, a closing
\* quote, a shell metacharacter, or the end of the command; quoted or not),
\* check_spawn_cmd returns ok = false and one of its violations speaks of the
\* system path.
C21_ProtectedPathAlwaysRejected ==
    \A k \in DOMAIN checked :
        LET cmd == checked[k].cmd IN
        (\E pre \in ProtectedPrefixes, i \in 1..Len(cmd) : SegmentAt(cmd, pre, i)) =>
            /\ ~checked[k].result.ok
            /\ \E v \in DOMAIN checked[k].result.violations :
                   Contains(checked[k].result.violations[v], "system path")

\* The quoting of a command, read left to right as a shell reads it: q[i] is
\* the state after the first i characters.  Outside quotes a backslash that
\* is not the last character escapes the next one, and a quote character that
\* is not escaped opens a region; inside single quotes only the single quote
\* is special, and closes; inside double quotes a backslash that is not the
\* last character escapes the next one, and a double quote that is not escaped
\* closes.  ("bare" is the state after a backslash outside quotes.)
Quoting(cmd) ==
    LET q[i \in 0..Len(cmd)] ==
            IF i = 0 THEN "none"
            ELSE LET before == q[i - 1]
                     ch == SubSeq(cmd, i, i)
                 IN CASE before = "none" ->
                             IF ch = "\\" /\ i < Len(cmd) THEN "bare"
                             ELSE IF ch = "'" THEN "single"
                             ELSE IF ch = "\"" THEN "double" ELSE "none"
                      [] before = "bare" -> "none"
                      [] before = "single" -> IF ch = "'" THEN "none" ELSE "single"
                      [] before = "double" ->
                             IF ch = "\\" /\ i < Len(cmd) THEN "escaped"
                             ELSE IF ch = "\"" THEN "none" ELSE "double"
                      [] before = "escaped" -> "double"
    IN q

\* the positions of cmd where a pipe, a semicolon, or one of two adjacent
\* ampersands stands
OperatorPositions(cmd) ==
    {i \in 1..Len(cmd) :
        \/ SubSeq(cmd, i, i) \in {"|", ";"}
        \/ SubSeq(cmd, i, i) = "&" /\
              \/ i < Len(cmd) /\ SubSeq(cmd, i + 1, i + 1) = "&"
              \/ i > 1 /\ SubSeq(cmd, i - 1, i - 1) = "&"}

\* C22: for a command whose quotes are balanced, in which every pipe,
\* semicolon, && and || stands inside a quoted region, and in which none of
\* the rules 1 to 3 finds anything (no substitution, no engine module, no
\* protected path), check_spawn_cmd returns ok = true.
C22_QuotedOperatorsAllowed ==
    \A k \in DOMAIN checked :
        LET cmd == checked[k].cmd
            q == Quoting(cmd)
        IN (/\ q[Len(cmd)] = "none"
            /\ \A i \in OperatorPositions(cmd) : q[i - 1] \in {"single", "double", "escaped"}
            /\ ~CMD_SUBSTITUTION_RE(cmd)
            /\ ~RECURSIVE_SPAWN_RE(cmd)
            /\ ~SYSTEM_PATH_WRITE_RE(cmd)
            /\ \A pre \in ProtectedPrefixes, i \in 1..Len(cmd) : ~SegmentAt(cmd, pre, i))
           => checked[k].result.ok

\* C23: for a command in which a pipe, a semicolon, && or || stands outside
\* every quoted region, check_spawn_cmd returns ok = false and one of its
\* violations speaks of the operator.
C23_UnquotedOperatorRejected ==
    \A k \in DOMAIN checked :
        LET cmd == checked[k].cmd
            q == Quoting(cmd)
        IN (\E i \in OperatorPositions(cmd) : q[i - 1] = "none") =>
            /\ ~checked[k].result.ok
            /\ \E v \in DOMAIN checked[k].result.violations :
                   Contains(checked[k].result.violations[v], "operator")

\* C24: the result of check_spawn_cmd lists one violation for each rule whose
\* test finds something in the command, and no other, in the order of the
\* rules (substitution, self-spawn, protected path, shell operator), however
\* many rules are violated; ok is false exactly when the list is not empty;
\* the empty command gives ok = true and no violation.
C24_AllRulesCollected ==
    \A k \in DOMAIN checked :
        LET cmd == checked[k].cmd
            res == checked[k].result
            Violated(v) ==
                CASE v = V_SUBSTITUTION -> CMD_SUBSTITUTION_RE(cmd)
                  [] v = V_SELF_SPAWN -> RECURSIVE_SPAWN_RE(cmd)
                  [] v = V_SYSTEM_PATH -> SYSTEM_PATH_WRITE_RE(cmd)
                  [] v = V_SHELL_OPERATOR -> SHELL_OPERATOR_RE(Join(tokenize_unquoted(cmd)))
        IN /\ res.violations =
                  SelectSeq(<<V_SUBSTITUTION, V_SELF_SPAWN, V_SYSTEM_PATH, V_SHELL_OPERATOR>>,
                            Violated)
           /\ res.ok <=> (res.violations = <<>>)
           /\ cmd = "" => res = [ok |-> TRUE, violations |-> <<>>]

\* C24, its case: a command that violates all four rules has been checked, and
\* its result lists the four violations
C24_Witness ==
    /\ checked # <<>>
    /\ checked[1].cmd = ";$(core.engine/etc"
    /\ ~checked[1].result.ok
    /\ Len(checked[1].result.violations) = 4

\* ------------------------------------------------------------------------
\* Properties of the task table (checked under DbSpec)
\* ------------------------------------------------------------------------
\* C25: a call of update_task_status with a metadata mapping, with or without
\* a tool name, leaves the row with the new status and with that metadata (the
\* row is what a later read returns).
C25_MetadataPersisted ==
    [][\A task_id \in 1..NumTasks, status \in TaskStatus,
          tool_name \in ToolNameArgs, md \in MetadataValues :
            UpdateTaskStatus(task_id, status, tool_name, Arg(md)) =>
                /\ tasks'[task_id].status = status
                /\ tasks'[task_id].metadata = md]_vars

\* ------------------------------------------------------------------------
\* Properties of the Dispatcher's scheduling (C26 and C28 checked under
\* FairSpec, the others under Spec)
\* ------------------------------------------------------------------------
\* C26: every task whose persisted status is routing or executing has the
\* status done or failed at some later time, provided every ready task of the
\* event loop is run and every awaited call ends.
C26_EveryTaskTerminates ==
    \A t \in 1..NumTasks :
        (t \in DOMAIN tasks /\ tasks[t].status \in {"routing", "executing"})
            ~> (t \in DOMAIN tasks /\ tasks[t].status \in {"done", "failed"})

\* handler h is blocked: it awaits the classifier, a backoff sleep, a limiter
\* slot that is taken, a tool, or a subprocess
Blocked(h) ==
    \/ handlers[h].pc \in {"calling", "backoff", "running", "spawning", "proc_wait"}
    \/ handlers[h].pc = "route" /\ llm_sem = 0
    \/ handlers[h].pc = "spawn_wait" /\ brain_sem = 0

\* the model's bound on the number of handlers stands in the way of the fetch
CapReached == Len(handlers) + Len(get_pending_tasks(tasks)) > MaxHandlers

\* C27: while a handler is blocked the poll loop can always take its next step
\* (the bound on the handlers of the model aside); a poll reads every task that
\* is pending, and gives each of them a new handler; and the first step of a
\* new handler, the write of the status routing, waits for nothing.
C27_PollLoopNeverBlocked ==
    /\ []((/\ pollpc \in {"sleep", "fetching", "fetched"}
           /\ \E h \in DOMAIN handlers : Blocked(h)
           /\ ~(pollpc = "fetching" /\ CapReached)) => ENABLED PollNext)
    /\ [](\A h \in DOMAIN handlers : handlers[h].pc = "start" => ENABLED MarkRouting(h))
    /\ [][/\ PollFetch =>
                \A t \in DOMAIN tasks :
                    tasks[t].status = "pending" => t \in Range(fetched')
          /\ PollDispatch =>
                \A i \in DOMAIN fetched :
                    \E h \in DOMAIN handlers' \ DOMAIN handlers :
                        handlers'[h].task = fetched[i] /\ handlers'[h].pc = "start"
          /\ \A h \in DOMAIN handlers :
                MarkRouting(h) => tasks'[handlers[h].task].status = "routing"]_vars

\* C27, its case: the handler of task 1 awaits the classifier, and task 2,
\* which was pending meanwhile, has been picked up by a later poll and moved
\* to routing; its handler waits for the classifier's slot
C27_Witness ==
    /\ Len(handlers) = 2
    /\ handlers[1].task = 1 /\ handlers[1].pc = "calling"
    /\ handlers[2].task = 2 /\ handlers[2].pc = "route"
    /\ tasks[2].status = "routing"
    /\ pollpc = "sleep"

\* Engine.stop has been called on the running engine
Stopped == pollpc # "idle" /\ ~running

\* C28: from a state in which the stop signal has been given no step creates a
\* handler, and the poll loop of Engine.run returns at some later time (the
\* bound on the handlers of the model aside).
C28_StopEndsDispatch ==
    /\ [][Stopped => Len(handlers') = Len(handlers)]_vars
    /\ Stopped ~> (pollpc = "returned" \/ (pollpc = "fetching" /\ CapReached))

\* ------------------------------------------------------------------------
\* Properties of the Dispatcher run through main() (checked under MainSpec)
\* ------------------------------------------------------------------------
\* C29: no handler is ever cancelled: a handler that is in flight when the
\* engine is stopped keeps running, also under main().
C29_InFlightNotCancelled ==
    \A h \in DOMAIN handlers : handlers[h].pc # "cancelled"

\* ------------------------------------------------------------------------
\* Properties of a task's execution (checked under ExecSpec)
\* ------------------------------------------------------------------------
\* the handler has run something for its task: a tool's run_local was called,
\* or the brain subprocess was created
RunsSomething(h) ==
    handlers[h].pc \in {"running", "finishing", "proc_wait", "done"}

\* done is written by the task's handler, right after its work ended well: the
\* step that ends the work is the return of run_local of a registered tool for
\* a local decision, and the return of proc.wait() of a subprocess that was
\* created for a handoff decision
DoneFollowsWork ==
    [][\A h \in DOMAIN handlers :
          /\ (tasks'[handlers[h].task].status = "done" /\ tasks[handlers[h].task].status # "done")
                => handlers[h].pc = "finishing" /\ handlers'[h].pc = "done"
          /\ (handlers'[h].pc = "finishing" /\ handlers[h].pc # "finishing")
                => \/ /\ ~handlers[h].out[1].handoff
                       /\ handlers[h].pc = "running"
                       /\ handlers[h].out[1].tool_name \in DOMAIN TOOL_REGISTRY
                    \/ /\ handlers[h].out[1].handoff
                       /\ handlers[h].pc = "proc_wait"
                       /\ handlers[h].cmd \in spawned
                       /\ default_cloud_brain \in DOMAIN brain_registry]_vars

\* a handoff whose configured brain is not registered runs nothing and its
\* task is never done
NoBrainNoDone ==
    /\ \A h \in DOMAIN handlers :
          (/\ handlers[h].out # <<>>
           /\ handlers[h].out[1].handoff
           /\ default_cloud_brain \notin DOMAIN brain_registry) => ~RunsSomething(h)
    /\ \A t \in DOMAIN tasks :
          (tasks[t].status = "done" /\ tasks[t].metadata.handoff)
              => default_cloud_brain \in DOMAIN brain_registry

\* C30 as stated: done is written only after run_local returned (local
\* decision) or the subprocess launch was acknowledged (handoff decision); a
\* task whose capability name is absent from the Tool registry, whichever its
\* decision, or whose handoff finds the configured brain unregistered, runs
\* nothing and is never done.
C30_UnresolvedNeverDone ==
    /\ DoneFollowsWork
    /\ [](NoBrainNoDone)
    /\ [](/\ \A h \in DOMAIN handlers :
               (/\ handlers[h].out # <<>>
                /\ handlers[h].out[1].tool_name \notin DOMAIN TOOL_REGISTRY) => ~RunsSomething(h)
          /\ \A t \in DOMAIN tasks :
               tasks[t].status = "done" => tasks[t].tool_name \in DOMAIN TOOL_REGISTRY)

\* C30, corrected: as above, with the Tool registry consulted for local
\* decisions only: a task with a local decision whose capability name is absent
\* from the Tool registry runs nothing and is never done (a handoff is spawned
\* whatever its capability name).
C30_DoneOnlyAfterWork ==
    /\ DoneFollowsWork
    /\ [](NoBrainNoDone)
    /\ [](/\ \A h \in DOMAIN handlers :
               (/\ handlers[h].out # <<>>
                /\ ~handlers[h].out[1].handoff
                /\ handlers[h].out[1].tool_name \notin DOMAIN TOOL_REGISTRY) => ~RunsSomething(h)
          /\ \A t \in DOMAIN tasks :
               (tasks[t].status = "done" /\ ~tasks[t].metadata.handoff)
                   => tasks[t].tool_name \in DOMAIN TOOL_REGISTRY)

\* one task done after its registered tool ran, the other a handoff that found
\* no brain under the configured name and stays executing
C30_Witness ==
    /\ Len(handlers) = 2
    /\ default_cloud_brain \notin DOMAIN brain_registry
    /\ handlers[1].pc = "done" /\ tasks[1].status = "done" /\ tasks[1].tool_name = "arxiv"
    /\ handlers[2].pc = "crashed" /\ tasks[2].status = "executing"
    /\ tasks[2].metadata.handoff

\* ------------------------------------------------------------------------
\* Properties of the smoke test (checked under SmokeSpec)
\* ------------------------------------------------------------------------
\* step 1: the file is there and its module executes
StepLoad(path) == Exists(files, path) /\ ~LoadRaises(files[path].content)

\* step 2: the named BaseTool subclasses the load of the file at path brings
StepFind(path) ==
    IF StepLoad(path)
    THEN {c \in ClassesOf(files[path].content, SmokeModule(path)) :
              c.base = "BaseTool" /\ c.tool_name # ""}
    ELSE {}

\* the class can be instantiated
StepInstantiate(c) == c.init = "ok" /\ c.run_local.defined

\* step 3: get_spawn_cmd({}) can be called with one argument, is not a
\* coroutine function, does not raise and returns a non-empty string
StepSpawnCmd(c) ==
    Len(c.get_spawn_cmd.params) = 2 /\ ~c.get_spawn_cmd.is_async /\ c.cmd = "ok"

\* step 4: run_local({}) can be called with one argument and awaited
StepAwait(c) == Len(c.run_local.params) = 2 /\ c.run_local.is_async

\* C31: smoke_test.run answers ok=true exactly when the module loads, a new
\* named tool class is found, it instantiates, get_spawn_cmd({}) gives a
\* non-empty string and the awaited run_local({}) does not raise; otherwise
\* the answer is ok=false with the reason of the first step that failed, and
\* when that step is before run_local, run_local is never awaited.
C31_SmokeRunSteps ==
    [][/\ (wpc = "next" /\ wpc' = "trial")
           => LET c == trial'[1].tool_cls IN
              /\ c \in StepFind(Head(newq))
              /\ StepInstantiate(c) /\ StepSpawnCmd(c) /\ StepAwait(c)
       /\ (wpc = "next" /\ wlog' # wlog)
           => LET e == wlog'[Len(wlog')] IN
              /\ e.path = Head(newq)
              /\ ~e.ok
              /\ trial' = <<>> /\ effects' = effects
              /\ \/ ~StepLoad(e.path) /\ e.reason = "ImportError"
                 \/ /\ StepLoad(e.path) /\ StepFind(e.path) = {}
                    /\ e.reason = "No BaseTool subclass with tool_name found in module"
                 \/ \E c \in StepFind(e.path) :
                       \/ ~StepInstantiate(c) /\ e.reason = "Instantiation failed"
                       \/ /\ StepInstantiate(c) /\ ~StepSpawnCmd(c)
                          /\ e.reason \in {"get_spawn_cmd raised",
                                            "get_spawn_cmd({}) returned empty or non-str"}
                       \/ /\ StepInstantiate(c) /\ StepSpawnCmd(c) /\ ~StepAwait(c)
                          /\ e.reason = "run_local raised"
       /\ (wpc = "trial" /\ wlog' # wlog)
           => LET e == wlog'[Len(wlog')]
                  c == trial[1].tool_cls
              IN
              /\ e.path = trial[1].path
              /\ StepInstantiate(c) /\ StepSpawnCmd(c) /\ StepAwait(c)
              /\ e.ok <=> c.run = "ok"
              /\ ~e.ok => e.reason = "run_local raised"]_vars

\* one file passed all five steps and another was stopped at get_spawn_cmd({})
C31_Witness ==
    \E i, j \in DOMAIN wlog :
        /\ wlog[i].ok
        /\ ~wlog[j].ok
        /\ wlog[j].reason = "get_spawn_cmd({}) returned empty or non-str"

\* ------------------------------------------------------------------------
\* Properties of the quote tracker (checked under SanitizerSpec)
\* ------------------------------------------------------------------------
\* The stated policy, read left to right: PolicyState(cmd)[i] is where the
\* reader stands after the i-th character.  Outside quotes a single quote
\* opens a region that the next single quote ends and a double quote opens a
\* region that the next unescaped double quote ends; inside double quotes a
\* backslash that has a character after it makes that character skipped.
PolicyState(cmd) ==
    LET ch(i) == SubSeq(cmd, i, i)
        P[i \in 0..Len(cmd)] ==
            IF i = 0 THEN "none"
            ELSE LET before == P[i - 1] IN
                 CASE before = "none" ->
                        (IF ch(i) = "'" THEN "single"
                         ELSE IF ch(i) = "\"" THEN "double" ELSE "none")
                   [] before = "single" -> (IF ch(i) = "'" THEN "none" ELSE "single")
                   [] before = "double" ->
                        (IF ch(i) = "\\" /\ i < Len(cmd) THEN "skip"
                         ELSE IF ch(i) = "\"" THEN "none" ELSE "double")
                   [] OTHER -> "double"
    IN P

\* the positions of the characters the policy counts as unquoted: read outside
\* every region, and not a quote that opens one
PolicyUnquoted(cmd) ==
    LET P == PolicyState(cmd) IN
    {i \in 1..Len(cmd) : P[i - 1] = "none" /\ SubSeq(cmd, i, i) \notin {"'", "\""}}

\* the characters of cmd at the positions of S, in order
Pick(cmd, S) ==
    LET F[i \in 0..Len(cmd)] ==
            IF i = 0 THEN ""
            ELSE IF i \in S THEN F[i - 1] \o SubSeq(cmd, i, i) ELSE F[i - 1]
    IN F[Len(cmd)]

\* C32: for every command the unquoted text the tracker returns is made of
\* exactly the characters the policy counts as unquoted, in order, in one part
\* more than the regions opened; after an unterminated opening quote nothing
\* more is unquoted.
C32_QuoteTrackerFollowsPolicy ==
    \A k \in DOMAIN checked :
        LET cmd == checked[k].cmd
            P == PolicyState(cmd)
            parts == tokenize_unquoted(cmd)
            opened == {i \in 1..Len(cmd) : P[i - 1] = "none" /\ P[i] \in {"single", "double"}}
        IN
        /\ Join(parts) = Pick(cmd, PolicyUnquoted(cmd))
        /\ Len(parts) = Cardinality(opened) + 1
        /\ P[Len(cmd)] # "none"
              => \E j \in opened :
                     /\ \A m \in j..Len(cmd) : P[m] # "none"
                     /\ Join(parts) = Pick(cmd, {i \in PolicyUnquoted(cmd) : i < j})

\* a double-quoted region holding an escaped double quote is never closed:
\* the semicolon after it is quoted
C32_Witness ==
    /\ checked # <<>>
    /\ checked[1].cmd = "\"\\\";"
    /\ tokenize_unquoted(checked[1].cmd) = <<"", "">>
    /\ checked[1].result.ok

C34_TestedAtMostOnce ==
    /\ [](/\ \A i, j \in DOMAIN wlog : wlog[i].path = wlog[j].path => i = j
          /\ \A i \in DOMAIN newq : newq[i] \notin DOMAIN known
          /\ \A i \in DOMAIN trial : trial[i].path \notin DOMAIN known
          /\ wpc # "crashed" => \A i \in DOMAIN wlog : wlog[i].path \in DOMAIN known
          /\ wpc # "idle" =>
                \A p \in DOMAIN known : \A i \in DOMAIN new_files(known, files) :
                    new_files(known, files)[i] # p)
    /\ [][/\ wpc # "idle" => DOMAIN known \subseteq DOMAIN known'
          /\ wlog' # wlog => /\ Len(wlog') = Len(wlog) + 1
                             /\ wlog'[Len(wlog')].path \notin DOMAIN known
                             /\ \A i \in DOMAIN wlog : wlog'[i] = wlog[i]]_vars

\* a file that was admitted is written again afterwards, its modification time
\* is no longer the recorded one, and the Watcher has nothing new to test
C34_Witness ==
    /\ wpc = "sleep"
    /\ \E i \in DOMAIN wlog :
           /\ wlog[i].ok
           /\ Exists(files, wlog[i].path)
           /\ wlog[i].path \in DOMAIN known
           /\ files[wlog[i].path].mtime # known[wlog[i].path]
    /\ new_files(known, files) = <<>>

\* ------------------------------------------------------------------------
\* Properties of the role checks for brains and providers (checked under
\* ValidatorSpec)
\* ------------------------------------------------------------------------
\* C35: every registered brain whose get_spawn_cmd is missing, is async, or
\* takes a number of parameters other than two besides the receiver has an
\* error under the Brain role check; every supplied provider whose run is
\* missing, is not async, or takes a parameter besides the receiver has an
\* error under the Provider role check.
C35_WrongOperationIsAnError ==
    /\ \A n \in DOMAIN brain_registry :
          LET cls == brain_registry[n] IN
          (\/ ~cls.get_spawn_cmd.defined
           \/ cls.get_spawn_cmd.is_async
           \/ Len(cls.get_spawn_cmd.params) # 3) => HasError(check_brain(cls))
    /\ \A provider_classes \in ProviderLists : \A k \in DOMAIN provider_classes :
          LET cls == provider_classes[k] IN
          (\/ ~cls.run.defined
           \/ ~cls.run.is_async
           \/ Len(cls.run.params) # 1) => HasError(check_provider(cls))

\* ------------------------------------------------------------------------
\* Properties of admission by the Watcher (checked under WatcherSpec)
\* ------------------------------------------------------------------------
\* C36: the pass of the Watcher over a new file of brains/ that defines
\* GoodBrain ends with the brain registered under its declared name and the
\* file where it was, not in quarantine.
C36_ValidBrainAdmitted ==
    [][\A path \in Paths :
          (/\ wlog' # wlog
           /\ wlog'[Len(wlog')].path = path
           /\ path.dir = "brains"
           /\ Exists(files, path)
           /\ files[path].content = "good_brain")
              => /\ "good_brain" \in DOMAIN brain_registry'
                 /\ brain_registry'["good_brain"] = GoodBrain("brains." \o path.stem)
                 /\ Exists(files', path)
                 /\ quarantine'[path.stem] = quarantine[path.stem]]_vars

\* the entries of the registry reg2 that reg does not hold
NewEntries(reg, reg2) ==
    {n \in DOMAIN reg2 : n \notin DOMAIN reg \/ reg2[n] # reg[n]}

\* C37: what the Watcher registers is what the smoke test tried: every entry a
\* step puts in a registry is, but for the name of the module it is imported
\* under, the class whose run_local({}) the trial awaited, also when the file
\* was written again while the trial ran.
C37_RegisteredIsWhatWasTested ==
    [][\A n \in NewEntries(TOOL_REGISTRY, TOOL_REGISTRY')
               \cup NewEntries(brain_registry, brain_registry') :
          LET cls == IF n \in NewEntries(TOOL_REGISTRY, TOOL_REGISTRY')
                     THEN TOOL_REGISTRY'[n] ELSE brain_registry'[n]
          IN /\ wpc = "trial"
             /\ [cls EXCEPT !.module = SmokeModule(trial[1].path)] = trial[1].tool_cls]_vars

\* C38: no step of the Watcher replaces an entry of a registry: a name that is
\* a key of the Tool registry or of the Brain registry keeps the class it has.
C38_AdmissionReplacesNothing ==
    [][/\ \A n \in DOMAIN TOOL_REGISTRY :
             n \in DOMAIN TOOL_REGISTRY' /\ TOOL_REGISTRY'[n] = TOOL_REGISTRY[n]
       /\ \A n \in DOMAIN brain_registry :
             n \in DOMAIN brain_registry' /\ brain_registry'[n] = brain_registry[n]]_vars

\* ------------------------------------------------------------------------
\* Properties of the smoke test's patches (checked under IoSpec)
\* ------------------------------------------------------------------------
\* C39: no call made by a tool that the Dispatcher runs reaches a mock of the
\* smoke test or its replaced write helper, also when the tool runs while a
\* trial is suspended; and a call made when no trial is under way reaches the
\* original, every patched name having been restored.
C39_MocksConfinedToTrial ==
    /\ [](\A e \in effects :
            "by" \in DOMAIN e => e.reached \notin {"mock", "disposable"})
    /\ [][\A e \in effects' \ effects :
            ("by" \in DOMAIN e /\ wpc # "trial") => e.reached \in {"network", "outside"}]_vars

\* ------------------------------------------------------------------------
\* Properties of the limiters' slots (checked under HandlersFairSpec)
\* ------------------------------------------------------------------------
\* the handlers that wait for a slot of the LLM limiter, of the brain limiter
WaitsForLlmSlot(h) == h \in DOMAIN handlers /\ handlers[h].pc = "route"
WaitsForBrainSlot(h) == h \in DOMAIN handlers /\ handlers[h].pc = "spawn_wait"

\* the step that ends handler h's classifier attempt, launch attempt
AttemptEnds(h) ==
    /\ h \in DOMAIN handlers
    /\ handlers[h].pc = "calling"
    /\ handlers'[h].pc # "calling"
LaunchEnds(h) ==
    /\ h \in DOMAIN handlers
    /\ handlers[h].pc \in {"spawning", "proc_wait"}
    /\ handlers'[h].pc \notin {"spawning", "proc_wait"}

\* C40: the step that ends a classifier attempt (by an answer, a timeout or an
\* error) gives the LLM slot back, so that a handler in its backoff wait holds
\* none; the step that ends a launch attempt (the process created and waited
\* for, or its creation failed) gives the brain slot back; the free slots are
\* always the limit less the attempts under way; and under fairness a handler
\* that waits for a slot gets it.
C40_SlotsNeverLeak ==
    /\ [][\A h \in 1..MaxHandlers :
            /\ AttemptEnds(h) => llm_sem' = llm_sem + 1
            /\ LaunchEnds(h) => brain_sem' = brain_sem + 1]_vars
    /\ [](/\ llm_sem = llm_semaphore_limit - Cardinality(InFlightCalls)
          /\ brain_sem = cloud_brain_semaphore_limit - Cardinality(InFlightLaunches))
    /\ \A h \in 1..MaxHandlers :
          /\ WaitsForLlmSlot(h) ~> (h \in DOMAIN handlers /\ handlers[h].pc = "calling")
          /\ WaitsForBrainSlot(h) ~> (h \in DOMAIN handlers /\ handlers[h].pc = "spawning")

\* C40, its case: one handler is in its backoff wait after a failed attempt
\* while another holds the only LLM slot, which the first gave back
C40_Witness ==
    \E h, g \in DOMAIN handlers :
        /\ handlers[h].pc = "backoff"
        /\ handlers[g].pc = "calling"
        /\ llm_sem = 0
        /\ llm_semaphore_limit = 1

=============================================================================
